---- MODULE Spec2Model ----
(***************************************************************************)
(* Model of the personal-finance ETL: raw CSV ingestion, the staging       *)
(* layer (description normalisation, rule-based categorisation, context    *)
(* refinement), the marts layer (unifier, meta-category mapper, table      *)
(* builds) and the pipeline orchestration.                                 *)
(*                                                                         *)
(* Text is modelled as sequences of one-character strings so that          *)
(* substring containment, upper-casing and whitespace collapsing are       *)
(* computed the way the Python code computes them.                         *)
(***************************************************************************)
EXTENDS Integers, Sequences, FiniteSets, TLC

VARIABLES
  \* one row (and a twin of it) travelling through a staging cleaning pipe
  rowRaw,     \* description of the row as stored in the raw table
  twinRaw,    \* description of the twin: rowRaw up to letter case / whitespace
  rowDesc,    \* description column of the row at the current stage
  twinDesc,   \* description column of the twin at the current stage
  rowAcct,    \* "bank_account" or "credit_card": which cleaning pipe runs
  rowDow,     \* day_of_week column (1 = Monday .. 7 = Sunday)
  rowChase,   \* chase_category column (credit cards only, <<>> for bank rows)
  rowCat,     \* category column of the row ("" while not assigned)
  twinCat,    \* category column of the twin
  rowMeta,    \* meta_category column of the row ("" while not assigned)
  rowStage,   \* position in the pipe: raw, normalized, categorized, refined, mapped
  \* one ETLPipeline object and the call it is executing
  pipeEntry,  \* the method called: [method, layer]
  pipeRaises, \* the transform functions that raise when called
  pipeLayer,  \* index of the layer being run in run_full_pipeline's list
  pipeFunc,   \* index of the next transform in the layer being run
  pipeCalls,  \* names of the transform functions called so far, in call order
  pipeStatus, \* running, returned, ValueError or raised
  \* the database
  rawTable,   \* raw_..._transactions tables, by account type: their rows
  stagingTable, \* staging_..._transactions tables: [built, rows]
  martsUnifiedTransactions, \* marts_unified_transactions: [built, rows]
  lastOp,     \* the last ETL operation and what it reported
  \* the mart tables the metrics read, and the readers
  martsTable, \* marts_spending, marts_income, marts_savings: [built, rows]
  metricsCall, \* the last call of a function of api/metrics.py and its outcome
  apiCall     \* the last request to the query API and its response

rowVars == <<rowRaw, twinRaw, rowDesc, twinDesc, rowAcct, rowDow, rowChase,
             rowCat, twinCat, rowMeta, rowStage>>

pipeVars == <<pipeEntry, pipeRaises, pipeLayer, pipeFunc, pipeCalls, pipeStatus>>

etlVars == <<rawTable, stagingTable, martsUnifiedTransactions, lastOp>>

qryVars == <<martsTable, metricsCall, apiCall>>

vars == <<rowVars, pipeVars, etlVars, qryVars>>

\* the variables of a part of the program that a specification leaves alone
RowIdle ==
  /\ rowRaw = <<>> /\ twinRaw = <<>> /\ rowDesc = <<>> /\ twinDesc = <<>>
  /\ rowAcct = "bank_account" /\ rowDow = 1 /\ rowChase = <<>>
  /\ rowCat = "" /\ twinCat = "" /\ rowMeta = "" /\ rowStage = "idle"

PipeIdle ==
  /\ pipeEntry = [method |-> "none", layer |-> ""]
  /\ pipeRaises = {} /\ pipeLayer = 0 /\ pipeFunc = 0
  /\ pipeCalls = <<>> /\ pipeStatus = "idle"

EtlIdle ==
  /\ rawTable = <<>> /\ stagingTable = <<>>
  /\ martsUnifiedTransactions = <<>> /\ lastOp = <<>>

MartsIdle == martsTable = <<>>

MetricsIdle == metricsCall = <<>>

ApiIdle == apiCall = <<>>

QryIdle == MartsIdle /\ MetricsIdle /\ ApiIdle

----------------------------------------------------------------------------
(* Text helpers *)

Range(s) == {s[i] : i \in DOMAIN s}

\* Python `pattern in description` on str
Contains(d, p) ==
  /\ Len(p) <= Len(d)
  /\ \E i \in 0..(Len(d) - Len(p)) : \A j \in 1..Len(p) : d[i + j] = p[j]

LowerLetters == {"a","b","c","d","e","f","g","h","i","j","k","l","m",
                 "n","o","p","q","r","s","t","u","v","w","x","y","z"}

UpperOf ==
  ("a" :> "A") @@ ("b" :> "B") @@ ("c" :> "C") @@ ("d" :> "D") @@ ("e" :> "E") @@
  ("f" :> "F") @@ ("g" :> "G") @@ ("h" :> "H") @@ ("i" :> "I") @@ ("j" :> "J") @@
  ("k" :> "K") @@ ("l" :> "L") @@ ("m" :> "M") @@ ("n" :> "N") @@ ("o" :> "O") @@
  ("p" :> "P") @@ ("q" :> "Q") @@ ("r" :> "R") @@ ("s" :> "S") @@ ("t" :> "T") @@
  ("u" :> "U") @@ ("v" :> "V") @@ ("w" :> "W") @@ ("x" :> "X") @@ ("y" :> "Y") @@
  ("z" :> "Z")

\* characters matched by the regex class \s and removed by str.strip()
Whitespace == {" ", "\t", "\n", "\r", "\f"}

\* Series.str.upper()
str_upper(s) == [i \in DOMAIN s |-> IF s[i] \in LowerLetters THEN UpperOf[s[i]] ELSE s[i]]

\* Series.str.replace(r'\s+', ' ', regex=True): every maximal whitespace run
\* becomes one space
RECURSIVE str_replace_ws(_)
str_replace_ws(s) ==
  IF s = <<>> THEN <<>>
  ELSE IF Head(s) \in Whitespace
       THEN IF Len(s) > 1 /\ s[2] \in Whitespace
            THEN str_replace_ws(Tail(s))
            ELSE <<" ">> \o str_replace_ws(Tail(s))
       ELSE <<Head(s)>> \o str_replace_ws(Tail(s))

RECURSIVE str_lstrip(_)
str_lstrip(s) ==
  IF s # <<>> /\ Head(s) \in Whitespace THEN str_lstrip(Tail(s)) ELSE s

RECURSIVE str_rstrip(_)
str_rstrip(s) ==
  IF s # <<>> /\ s[Len(s)] \in Whitespace
  THEN str_rstrip(SubSeq(s, 1, Len(s) - 1)) ELSE s

\* Series.str.strip()
str_strip(s) == str_rstrip(str_lstrip(s))

\* normalisation that forgets .str.strip()
normalize_without_strip(s) == str_replace_ws(str_upper(s))

\* staging._normalize_description, applied to one description
normalize_description(s) == str_strip(str_replace_ws(str_upper(s)))

----------------------------------------------------------------------------
(* Classifier rule tables *)

\* staging.py:41-46
salary_desc ==
  <<
    <<"C", "L", "E", "A", "R", "C", "O", "V", "E", "R", " ", "I", "N", "C", " ", "P", "A", "Y", "R", "O", "L", "L">>,
    <<"F", "E", "D", "E", "X", " ", "D", "A", "T", "A", "W", "O", "R", "K", "S", " ", "D", "I", "R", " ", "D", "E", "P">>,
    <<"E", "C", "O", "N", "O", "M", "I", "C", " ", "C", "O", "N", "S", "U", "L", "T", " ", "P", "A", "Y", "R", "O", "L", "L">>,
    <<"E", "M", "P", "L", "O", "Y", "M", "T", " ", "B", "E", "N", "E", "F", "I", "T", " ", "U", "I", " ", "B", "E", "N", "E", "F", "I", "T", " ", "P", "P", "D">>
  >>

\* staging.py:48-53
account_transfers_desc ==
  <<
    <<"O", "N", "L", "I", "N", "E", " ", "T", "R", "A", "N", "S", "F", "E", "R", " ", "T", "O", " ", "S", "A", "V">>,
    <<"O", "N", "L", "I", "N", "E", " ", "T", "R", "A", "N", "S", "F", "E", "R", " ", "T", "O", " ", "C", "H", "K">>,
    <<"O", "N", "L", "I", "N", "E", " ", "T", "R", "A", "N", "S", "F", "E", "R", " ", "F", "R", "O", "M", " ", "S", "A", "V">>,
    <<"O", "N", "L", "I", "N", "E", " ", "T", "R", "A", "N", "S", "F", "E", "R", " ", "F", "R", "O", "M", " ", "C", "H", "K">>
  >>

\* staging.py:55-58
jenna_wedding_acct_desc ==
  <<
    <<"W", "E", "S", "T", "F", "I", "E", "L", "D", " ", "B", "A", "N", "K", " ", "A", "C", "C", "T", "V", "E", "R", "I", "F", "Y">>,
    <<"W", "E", "S", "T", "B", "K", " ", "C", "K", " ", "W", "E", "B", "X", "F", "R", " ", "P", "2", "P", " ", "J", "E", "N", "N", "A", " ", "C", "A", "R", "L", "S", "O", "N">>
  >>

\* the if/elif chain of _categorize_individual_bank_transaction, in source order (staging.py:60-99)
BankRules == <<
  [kind |-> "any", cat |-> "SALARY",
   pats |-> salary_desc],
  [kind |-> "eq", cat |-> "ACCOUNT_INTEREST",
   pats |-> <<<<"I", "N", "T", "E", "R", "E", "S", "T", " ", "P", "A", "Y", "M", "E", "N", "T">>>>],
  [kind |-> "any", cat |-> "CELL_PHONE_BILL",
   pats |-> <<<<"V", "E", "R", "I", "Z", "O", "N", " ", "W", "I", "R", "E", "L", "E", "S", "S", " ", "P", "A", "Y", "M", "E", "N", "T", "S">>>>],
  [kind |-> "any", cat |-> "TRANSFER_TO_BROKERAGE",
   pats |-> <<<<"V", "A", "N", "G", "U", "A", "R", "D", " ", "B", "U", "Y", " ", "I", "N", "V", "E", "S", "T", "M", "E", "N", "T">>>>],
  [kind |-> "any", cat |-> "TRANSFER_FROM_BROKERAGE",
   pats |-> <<<<"V", "A", "N", "G", "U", "A", "R", "D", " ", "S", "E", "L", "L", " ", "I", "N", "V", "E", "S", "T", "M", "E", "N", "T">>, <<"A", "P", "A", " ", "T", "R", "E", "A", "S", " ", "3", "1", "0", " ", "M", "I", "S", "C", " ", "P", "A", "Y", " ", "P", "P", "D">>>>],
  [kind |-> "any", cat |-> "VENMO_PAYMENT",
   pats |-> <<<<"V", "E", "N", "M", "O", " ", "P", "A", "Y", "M", "E", "N", "T">>>>],
  [kind |-> "any", cat |-> "VENMO_CASHOUT",
   pats |-> <<<<"V", "E", "N", "M", "O", " ", "C", "A", "S", "H", "O", "U", "T">>>>],
  [kind |-> "any", cat |-> "HOA_PAYMENT",
   pats |-> <<<<"P", "I", "N", "N", "A", "C", "L", "E", " ", "C", "O", "A">>>>],
  [kind |-> "any", cat |-> "CREDIT_CARD_PAYMENT",
   pats |-> <<<<"C", "H", "A", "S", "E", " ", "C", "R", "E", "D", "I", "T", " ", "C", "R", "D", " ", "A", "U", "T", "O", "P", "A", "Y">>, <<"P", "A", "Y", "M", "E", "N", "T", " ", "T", "O", " ", "C", "H", "A", "S", "E", " ", "C", "A", "R", "D">>>>],
  [kind |-> "any", cat |-> "MORTGAGE_PAYMENT",
   pats |-> <<<<"O", "N", "P", "O", "I", "N", "T", " ", "C", "O", "M", "M", "U", "N", "I", "T", " ", "R", "E", " ", "P", "A", "Y", "M", "E", "N", "T">>, <<"O", "N", "P", "O", "I", "N", "T", " ", "C", "O", "M", "M", " ", "C", "U", " ", "M", "T", "G", " ", "P", "Y", "M", "T", "S">>>>],
  [kind |-> "any", cat |-> "TRANSFER_BETWEEN_CHASE_ACCOUNTS",
   pats |-> account_transfers_desc],
  [kind |-> "any", cat |-> "CASH_DEPOSIT",
   pats |-> <<<<"D", "E", "P", "O", "S", "I", "T", " ", "I", "D", " ", "N", "U", "M", "B", "E", "R">>, <<"R", "E", "M", "O", "T", "E", " ", "O", "N", "L", "I", "N", "E", " ", "D", "E", "P", "O", "S", "I", "T">>>>],
  [kind |-> "eq", cat |-> "CASH_WITHDRAWL_FOR_WEDDING",
   pats |-> <<<<"W", "I", "T", "H", "D", "R", "A", "W", "A", "L", " ", "0", "7", "/", "1", "4">>>>],
  [kind |-> "any", cat |-> "CASH_WITHDRAWL",
   pats |-> <<<<"W", "I", "T", "H", "D", "R", "A", "W", "A", "L">>>>],
  [kind |-> "any", cat |-> "WEDDING_PHOTOGRAPHER",
   pats |-> <<<<"A", "L", "E", "X", " ", "E", "L", "I", "S", "E">>>>],
  [kind |-> "any", cat |-> "COBRA_PAYMENTS",
   pats |-> <<<<"W", "E", "X", " ", "H", "E", "A", "L", "T", "H", " ", "P", "R", "E", "M", "I", "U", "M", "S", " ", "2", "8", "6", "7", "0", "9", "4", "0", " ", "W", "E", "B", " ", "I", "D">>>>],
  [kind |-> "any", cat |-> "TAX_REFUND",
   pats |-> <<<<"O", "R", " ", "R", "E", "V", "E", "N", "U", "E", " ", "D", "E", "P", "T", " ", "O", "R", "S", "T", "T", "A", "X", "R", "F", "D">>, <<"I", "R", "S", " ", "T", "R", "E", "A", "S", " ", "3", "1", "0", " ", "T", "A", "X", " ", "R", "E", "F">>>>],
  [kind |-> "any", cat |-> "PASSPORT_RENEWAL",
   pats |-> <<<<"C", "H", "E", "C", "K", " ", "#", " ", "1", "9", "7", "6", " ", "P", "A", "S", "S", "P", "O", "R", "T", "S", "E", "R", "V", "I", "C", "E", "S", " ", "P", "A", "Y", "M", "E", "N", "T", " ", "A", "R", "C", " ", "I", "D">>>>],
  [kind |-> "any", cat |-> "JENNA_WEDDING_ACCT_TRANSFERS",
   pats |-> jenna_wedding_acct_desc]
>>

\* staging.py:115-119
cc_payment_desc ==
  <<
    <<"P", "A", "Y", "M", "E", "N", "T", " ", "T", "H", "A", "N", "K", " ", "Y", "O", "U", "-", "M", "O", "B", "I", "L", "E">>,
    <<"A", "U", "T", "O", "M", "A", "T", "I", "C", " ", "P", "A", "Y", "M", "E", "N", "T", " ", "-", " ", "T", "H", "A", "N", "K">>,
    <<"P", "A", "Y", "M", "E", "N", "T", " ", "T", "H", "A", "N", "K", " ", "Y", "O", "U", " ", "-", " ", "W", "E", "B">>
  >>

\* staging.py:121-127
coffee_desc ==
  <<
    <<"S", "Q", " ", "*", "C", "O", "F", "F", "E", "E", " ", "T", "I", "M", "E">>,
    <<"C", "A", "F", "F", "E", " ", "U", "M", "B", "R", "I", "A", " ", "P", "O", "R", "T", "L", "A", "N", "D">>,
    <<"S", "Q", " ", "*", "S", "I", "S", "T", "E", "R", "S", " ", "C", "O", "F", "F", "E", "E", " ", "C", "O", "M", "P", "A", "N">>,
    <<"T", "S", "T", "*", "C", "A", "F", "F", "E", " ", "U", "M", "B", "R", "I", "A", " ", "P", "O", "R", "T", "L", "A", "N">>,
    <<"G", "O", "O", "D", " ", "C", "O", "F", "F", "E", "E">>
  >>

\* staging.py:129-137
lunch_desc ==
  <<
    <<"C", "H", "I", "P", "O", "T", "L", "E", " ", "O", "N", "L", "I", "N", "E">>,
    <<"T", "S", "T", "*", "P", "I", "Z", "Z", "I", "C", "A", "T", "O", " ", "-", " ", "P", "E", "A", "R", "L">>,
    <<"T", "S", "T", "*", " ", "P", "I", "Z", "Z", "I", "C", "A", "T", "O", " ", "-", " ", "P", "E", "A", "R", "L">>,
    <<"S", "Q", " ", "*", "L", "O", "V", "E", "J", "O", "Y", " ", "B", "A", "K", "E", "R", "S">>,
    <<"C", "H", "I", "P", "O", "T", "L", "E", " ", "M", "E", "X", " ", "G", "R", " ", "O", "N", "L", "I", "N", "E">>,
    <<"C", "H", "I", "P", "O", "T", "L", "E", " ", "1", "3", "5", "8">>,
    <<"T", "S", "T", "*", " ", "P", "i", "z", "z", "i", "c", "a", "t", "o", " ", "-", " ", "P", "e", "a", "r", "l">>
  >>

\* staging.py:139-153
concerts_desc ==
  <<
    <<"H", "A", "W", "T", "H", "O", "R", "N", "E", " ", "T", "H", "E", "A", "T", "E", "R">>,
    <<"T", "S", "T", "*", "R", "E", "V", "O", "L", "U", "T", "I", "O", "N", " ", "H", "A", "L", "L">>,
    <<"T", "S", "T", "*", " ", "M", "C", "M", "E", "N", "A", "M", "I", "N", "S", " ", "-", " ", "C", "R", "Y", "S", "T", "A", "L">>,
    <<"C", "A", "S", "C", "A", "D", "E", "S", " ", "A", "M", "P", "H", "I", "T", "H", "E", "A", "T", "R", "E">>,
    <<"S", "E", "A", "T", "G", "E", "E", "K", " ", "T", "I", "C", "K", "E", "T", "S">>,
    <<"A", "X", "S", ".", "C", "O", "M", "F", "E", "S", "T", "I", "V", "A", "L", " ", "G", "V", " ", "R">>,
    <<"T", "M", " ", "*", "K", "A", "Y", "T", "R", "A", "N", "A", "D", "A", " ", "X", " ", "J", "U", "S", "T", "I">>,
    <<"M", "C", "M", "E", "N", "A", "M", "I", "N", "S", " ", "C", "O", "N", "C", "E", "R", "T", "S">>,
    <<"C", "A", "S", "C", "A", "D", "E", " ", "T", "I", "C", "K", "E", "T", "S">>,
    <<"R", "E", "V", "O", "L", "U", "T", "I", "O", "N", " ", "H", "A", "L", "L">>,
    <<"T", "C", "K", "T", "W", "E", "B", "*", "G", "O", "A", "T", "W", "H", "O", "R", "E", "V", "I", "T", "R", "I">>,
    <<"P", "P", "*", "G", "A", "T", "E", "S", " ", "T", "O", " ", "H", "E", "L", "L">>,
    <<"S", "Q", " ", "*", "V", "I", "T", "R", "I", "O", "L">>
  >>

\* staging.py:155-164
nbhd_bars_desc ==
  <<
    <<"P", "A", "Y", "M", "A", "S", "T", "E", "R", " ", "L", "O", "U", "N", "G", "E">>,
    <<"T", "S", "T", "*", " ", "J", "E", "R", "R", "Y", "'", "S", " ", "T", "A", "V", "E", "R", "N">>,
    <<"J", "O", "E", "S", " ", "C", "E", "L", "L", "A", "R">>,
    <<"J", "O", "E", "'", "S", " ", "C", "E", "L", "L", "A", "R">>,
    <<"S", "P", "O", "*", "T", "H", "E", "F", "I", "E", "L", "D", "S", "B", "A", "R", "&", "a", "m", "p", ";", "G", "R", "I", "L", "L">>,
    <<"T", "H", "E", " ", "F", "I", "E", "L", "D", "S", " ", "B", "A", "R", " ", "&", "A", "M", "P", ";", " ", "G", "R", "I", "L", "L">>,
    <<"C", "A", "R", "L", "I", "T", "A", "S">>,
    <<"T", "H", "E", "F", "I", "E", "L", "D", "S", "B", "A", "R">>
  >>

\* staging.py:166-182
groceries_desc ==
  <<
    <<"S", "A", "F", "E", "W", "A", "Y", " ", "#", "2", "7", "9", "0">>,
    <<"N", "E", "W", " ", "S", "E", "A", "S", "O", "N", "S", " ", "M", "A", "R", "K", "E", "T">>,
    <<"W", "H", "O", "L", "E", "F", "D", "S", " ", "P", "R", "T", " ", "1", "0", "1", "4", "8">>,
    <<"F", "R", "E", "D", "-", "M", "E", "Y", "E", "R", " ", "#", "0", "3", "6", "0">>,
    <<"Z", "U", "P", "A", "N", "'", "S", " ", "M", "A", "R", "K", "E", "T">>,
    <<"C", "O", "S", "T", "C", "O", " ", "W", "H", "S", "E", " ", "#", "0", "1", "1", "1">>,
    <<"A", "L", "B", "E", "R", "T", "S", "O", "N", "S", " ", "#", "3", "5", "3", "1">>,
    <<"W", "H", "O", "L", "E", "F", "D", "S", " ", "B", "R", "D", " ", "1", "0", "2", "6", "6">>,
    <<"W", "H", "O", "L", "E", " ", "F", "O", "O", "D", "S", " ", "P", "R", "T", " ", "1", "0", "1", "4", "8">>,
    <<"U", "W", "A", "J", "I", "M", "A", "Y", "A">>,
    <<"T", "R", "A", "D", "E", "R", " ", "J", "O", "E", " ", "S", " ", "#", "1", "4", "6">>,
    <<"T", "H", "E", " ", "M", "E", "A", "T", "I", "N", "G", " ", "P", "L", "A", "C", "E">>,
    <<"W", "O", "R", "L", "D", " ", "F", "O", "O", "D", "S">>,
    <<"C", "O", "S", "T", "C", "O", " ", "W", "H", "S", "E", " ", "#", "0", "7", "8", "0">>,
    <<"C", "V", "S", "/", "P", "H", "A", "R", "M", "A", "C", "Y", " ", "#", "1", "1", "2", "8", "2">>
  >>

\* staging.py:184-191
movies_desc ==
  <<
    <<"R", "E", "G", "A", "L", " ", "C", "I", "N", "E", "M", "A", "S", " ", "I", "N", "C">>,
    <<"C", "I", "N", "E", "M", "A", " ", "2", "1">>,
    <<"F", "O", "X", " ", "T", "O", "W", "E", "R", " ", "S", "T", "M", " ", "1", "0">>,
    <<"H", "O", "L", "L", "Y", "W", "O", "O", "D", " ", "T", "H", "E", "A", "T", "R", "E">>,
    <<"L", "I", "V", "I", "N", "G", " ", "R", "O", "O", "M", " ", "T", "H", "E", "A", "T", "E", "R", "S">>,
    <<"R", "E", "G", "A", "L", " ", "B", "R", "I", "D", "G", "E", "P", "O", "R", "T", " ", " ", "0", "6", "5", "2">>
  >>

\* staging.py:193-203
wedding_desc ==
  <<
    <<"B", "L", "A", "C", "K", " ", "B", "U", "T", "T", "E", " ", "R", "A", "N", "C", "H", " ", "(", "1", ")">>,
    <<"Z", "O", "L", "A", ".", "C", "O", "M", "*", "R", "E", "G", "I", "S", "T", "R", "Y">>,
    <<"B", "L", "A", "C", "K", " ", "B", "U", "T", "T", "E", " ", "R", "A", "N", "C", "H", " ", "F", "O", "O", "D">>,
    <<"I", "N", " ", "*", "T", "H", "E", " ", "B", "O", "B", " ", "L", "L", "C">>,
    <<"F", "O", "R", "Y", "O", "U", "R", "P", "A", "R", "T", "Y">>,
    <<"S", "I", "S", "T", "E", "R", "S", " ", "S", "A", "L", "O", "O", "N", " ", "&", "A", "M", "P", ";", " ", "R", "A", "N", "C", "H">>,
    <<"P", "R", "O", "P", "E", "R", " ", "C", "L", "O", "T", "H">>,
    <<"M", "O", "R", "J", "A", "S">>,
    <<"E", "U", "R", "O", "P", "E", "A", "N", " ", "M", "A", "S", "T", "E", "R", " ", "T", "A", "I", "L", "O", "R">>
  >>

\* staging.py:205-210
fast_food_desc ==
  <<
    <<"S", "Q", " ", "*", "S", "H", "A", "K", "E", " ", "S", "H", "A", "C", "K">>,
    <<"M", "C", "D", "O", "N", "A", "L", "D", "'", "S">>,
    <<"B", "U", "R", "G", "E", "R", "V", "I", "L", "L", "E">>,
    <<"J", "A", "C", "K", " ", "I", "N", " ", "T", "H", "E", " ", "B", "O", "X", " ", "7", "1", "6", "0">>
  >>

\* staging.py:212-260
eating_out_desc ==
  <<
    <<"S", "Q", " ", "*", "G", "A", "S", "T", "R", "O", " ", "M", "A", "N", "I", "A">>,
    <<"J", "O", "J", "O", " ", "P", "E", "A", "R", "L">>,
    <<"T", "S", "T", "*", " ", "W", "I", "L", "D", " ", "C", "H", "I", "L", "D", " ", "P", "I", "Z", "Z", "A", " ", "-", " ", "F">>,
    <<"M", "O", "M", "O", " ", "Y", "A", "M", "A">>,
    <<"T", "S", "T", "*", " ", "S", "I", "Z", "Z", "L", "E", " ", "P", "I", "E", " ", "-", " ", "W", "E", "S", "T">>,
    <<"T", "S", "T", "*", " ", "M", "I", "S", "S", "I", "S", "S", "I", "P", "P", "I", " ", "S", "T", "U", "D", "I", "O", "S">>,
    <<"T", "S", "T", "*", " ", "1", "0", " ", "B", "A", "R", "R", "E", "L", " ", "B", "R", "E", "W", "I", "N", "G", " ", "-">>,
    <<"T", "S", "T", "*", " ", "S", "C", "O", "T", "T", "I", "E", "'", "S", " ", "P", "I", "Z", "Z", "A", " ", "P", "A", "R", "L">>,
    <<"T", "S", "T", "*", " ", "B", "R", "E", "A", "K", "S", "I", "D", "E", " ", "B", "R", "E", "W", "E", "R", "Y", " ", "-">>,
    <<"T", "S", "T", "*", " ", "1", "0", " ", "B", "A", "R", "R", "E", "L", " ", "P", "O", "R", "T", "L", "A", "N", "D", " ", "N">>,
    <<"T", "S", "T", "*", " ", "Q", "D", "S">>,
    <<"T", "S", "T", "*", " ", "S", "I", "L", "V", "E", "R", " ", "H", "A", "R", "B", "O", "R", " ", "B", "R", "E", "W", "I", "N">>,
    <<"T", "S", "T", "*", "R", "I", "V", "E", "R", " ", "P", "I", "G", " ", "-", " ", "P", "O", "R", "T", "L", "A", "N", "D">>,
    <<"Y", "A", "M", "A", " ", "S", "U", "S", "H", "I", " ", "A", "N", "D", " ", "S", "A", "K", "E", " ", "B", "A", "R">>,
    <<"B", "A", "N", "N", "I", "N", "G", "S", " ", "R", "E", "S", "T", "A", "U", "R", "A", "N", "T", " ", "&", "a", "m", "p", ";", " ", "P", "I", "E">>,
    <<"T", "S", "T", "*", " ", "G", "A", "R", "D", "E", "N", " ", "T", "A", "V", "E", "R", "N">>,
    <<"T", "S", "T", "*", " ", "F", "I", "R", "E", " ", "O", "N", " ", "T", "H", "E", " ", "M", "O", "U", "N", "T", "A", "I", "N">>,
    <<"T", "H", "E", " ", "T", "R", "I", "P", "L", "E", " ", "L", "I", "N", "D", "Y">>,
    <<"S", "Q", " ", "*", "S", "C", "O", "T", "T", "I", "E", "'", "S", " ", "P", "I", "Z", "Z", "A", " ", "P", "A", "R", "L", "O">>,
    <<"S", "Q", " ", "*", "R", "A", "N", "C", "H", " ", "P", "I", "Z", "Z", "A", " ", "S", "O", "U", "T", "H", "E", "A", "S", "T", " ">>,
    <<"P", "R", "O", "S", "T", " ", "T", "A", "V", "E", "R", "N", " ", "P", "O", "R", "T", "L", "A", "N", "D">>,
    <<"R", "I", "N", "G", "S", "I", "D", "E", " ", "S", "T", "E", "A", "K", " ", "H", "O", "U", "S", "E", " ", "W", "E", "S", "T">>,
    <<"S", "Q", " ", "*", "G", "R", "O", "U", "N", "D", " ", "K", "O", "N", "T", "R", "O", "L", " ", "C", "L", "A", "S", "S", "I">>,
    <<"S", "Q", " ", "*", "R", "A", "N", "C", "H", " ", "P", "I", "Z", "Z", "A", " ", "S", "O", "U", "T", "H", "E", "A", "S", "T">>,
    <<"S", "Q", " ", "*", "B", "A", "E", "R", "L", "I", "C", " ", "S", "O", "U", "T", "H", "E", "A", "S", "T">>,
    <<"L", "O", "Y", "A", "L", " ", "L", "E", "G", "I", "O", "N">>,
    <<"M", "A", "R", "A", "T", "H", "O", "N", " ", "T", "A", "V", "E", "R", "N", "A">>,
    <<"O", "X">>,
    <<"L", "U", "C", "K", "Y", " ", "L", "A", "B", "R", "A", "D", "O", "R", " ", "B", "E", "E", "R", " ", "H", "A", "L", "L">>,
    <<"K", "-", "T", "O", "W", "N", " ", "K", "O", "R", "E", "A", "N", " ", "B", "B", "Q">>,
    <<"P", "O", "R", "T", "L", "A", "N", "D", " ", "C", "I", "T", "Y", " ", "G", "R", "I", "L", "L", "-", "P", "O">>,
    <<"H", "a", "l", "e", " ", "P", "e", "l", "e">>,
    <<"S", "Q", " ", "*", "U", "P", "R", "I", "G", "H", "T", " ", "B", "R", "E", "W", "I", "N", "G">>,
    <<"S", "Q", " ", "*", "F", "R", "E", "E", "L", "A", "N", "D", " ", "S", "P", "I", "R", "I", "T", "S">>,
    <<"S", "Q", " ", "*", "J", "O", "H", "N", "S", " ", "M", "A", "R", "K", "E", "T", "P", "L", "A", "C", "E">>,
    <<"9", "T", "H", " ", "A", "V", "E", " ", "M", "I", "N", "I", " ", "M", "A", "R", "T">>,
    <<"O", "R", "G", "E", "A", "T", "W", "O", "R", "K", "S">>,
    <<"A", "P", " ", "M", "A", "R", "K", "E", "T">>,
    <<"D", "I", "V", "I", "S", "I", "O", "N", " ", "F", "O", "O", "D", " ", "M", "A", "R", "T", " ", "P", "D", "X">>,
    <<"A", "L", "B", "E", "R", "T", "A", " ", "S", "T", "R", "E", "E", "T", " ", "M", "A", "R", "K", "E", "T">>,
    <<"S", "Q", " ", "*", "U", "P", " ", "N", "O", "R", "T", "H", " ", "S", "U", "R", "F", " ", "C", "L", "U", "B">>,
    <<"R", "A", "Y", "S", " ", "F", "O", "O", "D", " ", "P", "L", "A", "C", "E", " ", "#", "4", "5">>,
    <<"5", "0", "T", "H", " ", "M", "A", "R", "K", "E", "T", " ">>,
    <<"G", "R", "O", "U", "N", "D", " ", "K", "O", "N", "T", "R", "O", "L", " ", "C", "L", "A", "S", "S", "I", "C", " ", "A", "R">>,
    <<"K", "I", "N", "G", "P", "I", "N", "S", " ", "-", " ", "B", "E", "A", "V", "E", "R", "T", "O", "N", " ", "-", " ", "B", "O">>,
    <<"B", "A", "N", "N", "I", "N", "G", "S", " ", "R", "E", "S", "T", "A", "U", "R", "A", "N", "T">>,
    <<"R", "A", "N", "C", "H", " ", "P", "I", "Z", "Z", "A">>
  >>

\* staging.py:262-273
clothing_desc ==
  <<
    <<"N", "O", "R", "D", "S", "T", "R", "O", "M">>,
    <<"F", "J", "A", "E", "L", "L", "R", "A", "E", "V", "E", "N">>,
    <<"O", "N", " ", "I", "N", "C">>,
    <<"T", "O", "M", "M", "Y", " ", "B", "A", "H", "A", "M", "A", " ", "6", "1", "3">>,
    <<"W", "A", "R", "B", "Y", " ", "P", "A", "R", "K", "E", "R">>,
    <<"B", "O", "N", "O", "B", "O", "S">>,
    <<"V", "I", "N", "T", "A", "G", "E", " ", "S", "P", "O", "R", "T", "S", " ", "F", "A", "S", "H", "I", "O", "N">>,
    <<"S", "P", " ", "W", "A", "D", "E", " ", "A", "N", "D", " ", "W", "I", "L", "L", "I", "A", "M", "S">>,
    <<"S", "P", " ", "A", "N", "D", "A", "F", "T", "E", "R", "T", "H", "A", "T">>,
    <<"N", "O", "R", "D", "S", "T", "R", "O", "M", " ", "#", "0", "0", "2", "5">>
  >>

\* staging.py:275-282
physical_media_desc ==
  <<
    <<"E", "V", "E", "R", "Y", "D", "A", "Y", " ", "M", "U", "S", "I", "C">>,
    <<"C", "R", "I", "T", "E", "R", "I", "O", "N", ".", "C", "O", "M">>,
    <<"B", "A", "R", "N", "E", "S", "&", "A", "M", "P", ";", "N", "O", "B", "L", "E", " ", "P", "A", "P", "E", "R", "S", "O", "U", "R", "C", "E">>,
    <<"B", "A", "R", "N", "E", "S", " ", "&", "A", "M", "P", ";", " ", "N", "O", "B", "L", "E", " ", "2", "3", "7", "1">>,
    <<"M", "U", "S", "I", "C", " ", "M", "I", "L", "L", "E", "N", "N", "I", "U", "M", "A", "R", "R", "O", "W", " ", "F", "I", "L", "M", "S">>
  >>

\* staging.py:284-292
hotels_desc ==
  <<
    <<"W", "A", "R", "W", "I", "C", "K", " ", "A", "L", "L", "E", "R", "T", "O", "N", " ", "H", "O", "T", "E", "L">>,
    <<"H", "O", "O", "D", " ", "R", "I", "V", "E", "R", " ", "H", "O", "T", "E", "L">>,
    <<"A", "I", "R", "B", "N", "B", " ", "*", " ", "H", "M", "P", "S", "D", "M", "X", "X", "9", "9">>,
    <<"C", "O", "U", "R", "T", "Y", "A", "R", "D", " ", "B", "Y", " ", "M", "A", "R", "R", "I", "O", "T", "T">>,
    <<"M", "A", "R", "R", "I", "O", "T", "T", " ", "S", "N", " ", "F", "R", "A", "N", " ", "M", "A", "R", "Q", "U">>,
    <<"B", "E", "S", "T", " ", "W", "E", "S", "T", "E", "R", "N", " ", "P", "O", "N", "D", "E", "R", "O", "S", "A">>,
    <<"H", "I", "L", "T", "O", "N">>
  >>

\* staging.py:294-298
flights_desc ==
  <<
    <<"A", "L", "A", "S", "K", "A", " ", "A", "I", "R">>,
    <<"U", "N", "I", "T", "E", "D", " ">>,
    <<"A", "M", "E", "R", "I", "C", "A", "N", " ", "A", "I", "R">>
  >>

\* staging.py:300-310
gifts_desc ==
  <<
    <<"P", "E", "N", "D", "L", "E", "T", "O", "N">>,
    <<"L", "U", "L", "U", "L", "E", "M", "O", "N", " ", "B", "R", "I", "D", "G", "E", "P", "O", "R", "T">>,
    <<"H", "O", "N", "E", "Y", "F", "U", "N", "D", ".", "C", "O", "M", "G", "I", "F", "T", "C", "A", "R", "D", "S">>,
    <<"S", "P", " ", "K", "I", "R", "I", "K", "O">>,
    <<"S", "P", " ", "B", "A", "B", "Y", "L", "I", "S", "T">>,
    <<"S", "P", " ", "W", "W", "W", ".", "P", "O", "S", "H", "B", "A", "B", "Y", ".", "C", "O", "M">>,
    <<"S", "Q", " ", "*", "V", "I", "K", " ", "R", "O", "A", "S", "T", "E", "R", "S">>,
    <<"S", "P", " ", "E", "C", "R", "U", " ", "M", "O", "D", "E", "R", "N", " ", "S", "T", "A", "T", "I">>,
    <<"L", "S", " ", "O", "B", "L", "A", "T", "I", "O", "N", "P", "A", "P", "E", "R", "S", ".", "C", "O", "M">>
  >>

\* staging.py:312-319
home_improvement_desc ==
  <<
    <<"P", "E", "A", "R", "L", " ", "H", "A", "R", "D", "W", "A", "R", "E">>,
    <<"C", "R", "A", "T", "E", " ", "&", "A", "M", "P", ";", " ", "B", "A", "R", "R", "E", "L", " ", "#", "4", "5", "4">>,
    <<"R", "E", "S", "T", "O", "R", "A", "T", "I", "O", "N", " ", "H", "A", "R", "D", "W", "A", "R", "E">>,
    <<"T", "H", "E", " ", "H", "O", "M", "E", " ", "D", "E", "P", "O", "T", " ", "4", "0", "0", "2">>,
    <<"W", "I", "L", "L", "I", "A", "M", "S", "-", "S", "O", "N", "O", "M", "A", " ", "6", "3", "2", "4">>,
    <<"K", "I", "T", "C", "H", "E", "N", " ", "K", "A", "B", "O", "O", "D", "L", "E">>
  >>

\* staging.py:321-325
car_maintenance_desc ==
  <<
    <<"L", "E", "S", " ", "S", "C", "H", "W", "A", "B", " ", "T", "I", "R", "E", "S", " ", "#", "0", "2", "4", "3">>,
    <<"O", "D", "O", "T", " ", "D", "M", "V", "2", "U">>,
    <<"D", "E", "Q", " ", "V", "I", "P", " ", "D", "E", "Q", " ", "T", "O", "O">>
  >>

\* staging.py:327-331
ai_desc ==
  <<
    <<"C", "L", "A", "U", "D", "E", ".", "A", "I", " ", "S", "U", "B", "S", "C", "R", "I", "P", "T", "I", "O", "N">>,
    <<"C", "H", "A", "T", "G", "P", "T", " ", "S", "U", "B", "S", "C", "R", "I", "P", "T", "I", "O", "N">>,
    <<"O", "P", "E", "N", "A", "I">>
  >>

\* staging.py:333-338
software_desc ==
  <<
    <<"D", "N", "H", "*", "D", "O", "M", "A", "I", "N", "S", "#", "3", "4", "0", "5", "9", "2", "4", "6", "5", "8">>,
    <<"G", "O", "O", "G", "L", "E", " ", "*", "D", "o", "m", "a", "i", "n", "s">>,
    <<"A", "M", "A", "Z", "O", "N", " ", "W", "E", "B", " ", "S", "E", "R", "V", "I", "C", "E", "S">>,
    <<"D", "I", "G", "I", "T", "A", "L", "O", "C", "E", "A", "N", ".", "C", "O", "M">>
  >>

\* staging.py:340-345
gas_desc ==
  <<
    <<"A", "S", "T", "R", "O">>,
    <<"S", "H", "E", "L", "L">>,
    <<"7", "6">>,
    <<"C", "H", "E", "V", "R", "O", "N">>
  >>

\* the if/elif chain of _categorize_individual_credit_card_transaction, in source order (staging.py:347-460)
CreditCardRules == <<
  [kind |-> "any", cat |-> "CREDIT_CARD_PAYMENT",
   pats |-> cc_payment_desc],
  [kind |-> "any", cat |-> "OVATION",
   pats |-> <<<<"S", "Q", " ", "*", "O", "V", "A", "T", "I", "O", "N", " ", "C", "O", "F", "F", "E", "E">>>>],
  [kind |-> "any", cat |-> "OTHER_COFFEE_SHOPS",
   pats |-> coffee_desc],
  [kind |-> "any", cat |-> "EATING_OUT_NBHD_LUNCH",
   pats |-> lunch_desc],
  [kind |-> "any", cat |-> "DOMINOS",
   pats |-> <<<<"D", "O", "M", "I", "N", "O">>>>],
  [kind |-> "any", cat |-> "CONCERTS",
   pats |-> concerts_desc],
  [kind |-> "any", cat |-> "NBHD_BARS",
   pats |-> nbhd_bars_desc],
  [kind |-> "any", cat |-> "RIDESHARE",
   pats |-> <<<<"L", "Y", "F", "T">>, <<"U", "B", "E", "R">>>>],
  [kind |-> "any", cat |-> "GROCERIES",
   pats |-> groceries_desc],
  [kind |-> "any", cat |-> "LIQUOR_STORE",
   pats |-> <<<<"L", "I", "Q", "U", "O", "R", " ", "S", "T", "O", "R", "E">>, <<"R", "O", "L", "L", "I", "N", "G", " ", "R", "I", "V", "E", "R", " ", "S", "P", "I", "R", "I", "T", "S">>>>],
  [kind |-> "eq", cat |-> "PGE",
   pats |-> <<<<"P", "O", "R", "T", "L", "A", "N", "D", " ", "G", "E", "N", "E", "R", "A", "L", " ", "E", "L", "E", "C", "T", "R", "I", "C">>>>],
  [kind |-> "any", cat |-> "GYM_MEMBERSHIP",
   pats |-> <<<<"L", "A", " ", "F", "I", "T">>>>],
  [kind |-> "any", cat |-> "SPOTIFY_MEMBERSHIP",
   pats |-> <<<<"S", "P", "O", "T", "I", "F", "Y">>>>],
  [kind |-> "any", cat |-> "COMCAST",
   pats |-> <<<<"C", "O", "M", "C", "A", "S", "T">>>>],
  [kind |-> "any", cat |-> "HAIRCUT",
   pats |-> <<<<"S", "Q", " ", "*", "M", "I", "C", "H", "E", "L", "L", "E", " ", "T", "H", "R", "A", "S", "H", "E", "R">>, <<"S", "Q", " ", "*", "S", "L", "A", "B", "T", "O", "W", "N", " ", "B", "A", "R", "B", "E", "R", "S", "H", "O", "P">>>>],
  [kind |-> "eq", cat |-> "POWELLS",
   pats |-> <<<<"P", "O", "W", "E", "L", "L", "'", "S", " ", "B", "U", "R", "N", "S", "I", "D", "E">>>>],
  [kind |-> "any", cat |-> "MOVIES",
   pats |-> movies_desc],
  [kind |-> "any", cat |-> "WEDDING",
   pats |-> wedding_desc],
  [kind |-> "any", cat |-> "FAST_FOOD",
   pats |-> fast_food_desc],
  [kind |-> "any", cat |-> "EATING_OUT",
   pats |-> eating_out_desc],
  [kind |-> "any", cat |-> "CLOTHES",
   pats |-> clothing_desc],
  [kind |-> "any", cat |-> "ARSENAL",
   pats |-> <<<<"A", "R", "S", "E", "N", "A", "L">>>>],
  [kind |-> "any", cat |-> "PHYSICAL_MEDIA",
   pats |-> physical_media_desc],
  [kind |-> "eq", cat |-> "APPLE_CLOUD_STORAGE",
   pats |-> <<<<"A", "P", "P", "L", "E", ".", "C", "O", "M", "/", "B", "I", "L", "L">>>>],
  [kind |-> "any", cat |-> "TRAVEL_LODGING",
   pats |-> hotels_desc],
  [kind |-> "any", cat |-> "FLIGHTS",
   pats |-> flights_desc],
  [kind |-> "any", cat |-> "PARKING",
   pats |-> <<<<"P", "A", "R", "K", "I", "N", "G">>>>],
  [kind |-> "any", cat |-> "MODA_CENTER",
   pats |-> <<<<"M", "O", "D", "A", " ", "C", "E", "N", "T", "E", "R">>>>],
  [kind |-> "eq", cat |-> "HBO_SUBSCRIPTION",
   pats |-> <<<<"R", "O", "K", "U", " ", "F", "O", "R", " ", "W", "A", "R", "N", "E", "R", "M", "E", "D", "I", "A", " ", "G", "L", "O", "B">>>>],
  [kind |-> "any", cat |-> "INDOOR_SOCCER",
   pats |-> <<<<"P", "O", "R", "T", "L", "A", "N", "D", " ", "I", "N", "D", "O", "O", "R", " ", "S", "O", "C", "C", "E">>>>],
  [kind |-> "any", cat |-> "GIFTS",
   pats |-> gifts_desc],
  [kind |-> "any", cat |-> "HOME_IMPROVEMENT",
   pats |-> home_improvement_desc],
  [kind |-> "any", cat |-> "SURFING",
   pats |-> <<<<"G", "O", "R", "G", "E", " ", "P", "E", "R", "F", "O", "R", "M", "A", "N", "C", "E">>, <<"S", "P", " ", "T", "R", "A", "V", "E", "L", "E", "R", "S", "U", "R", "F", "C", "L", "U", "B">>>>],
  [kind |-> "any", cat |-> "VIDEO_GAMES",
   pats |-> <<<<"X", "B", "O", "X">>, <<"P", "L", "A", "Y", "S", "T", "A", "T", "I", "O", "N">>>>],
  [kind |-> "any", cat |-> "DRY_CLEANING",
   pats |-> <<<<"W", "I", "L", "L", "A", "M", "E", "T", "T", "E", " ", "D", "R", "Y">>>>],
  [kind |-> "any", cat |-> "VOD_AMAZON",
   pats |-> <<<<"P", "R", "I", "M", "E", " ", "V", "I", "D", "E", "O">>, <<"G", "O", "O", "G", "L", "E", " ", "*", "T", "V">>>>],
  [kind |-> "any", cat |-> "CAR_INSURANCE",
   pats |-> <<<<"G", "E", "I", "C", "O">>>>],
  [kind |-> "any", cat |-> "CAR_MAINTENANCE",
   pats |-> car_maintenance_desc],
  [kind |-> "any", cat |-> "HOSTING_SOFTWARE_PROJECTS",
   pats |-> software_desc],
  [kind |-> "any", cat |-> "AI_SUBSCRIPTION",
   pats |-> ai_desc],
  [kind |-> "any", cat |-> "AMAZON_PRIME",
   pats |-> <<<<"A", "M", "A", "Z", "O", "N", " ", "P", "R", "I", "M", "E">>>>],
  [kind |-> "any", cat |-> "AMAZON_PURCHASE",
   pats |-> <<<<"A", "M", "A", "Z", "O", "N">>, <<"A", "M", "Z", "N">>>>],
  [kind |-> "any", cat |-> "CHESS_SUBSCRIPTION",
   pats |-> <<<<"C", "H", "E", "S", "S", ".", "C", "O", "M">>>>],
  [kind |-> "any", cat |-> "MTG",
   pats |-> <<<<"T", "C", "G", "P", "L", "A", "Y", "E", "R">>, <<"M", "A", "K", "E", "P", "L", "A", "Y", "I", "N", "G", "C", "A", "R", "D", "S">>>>],
  [kind |-> "eq", cat |-> "PEACOCK_SUBSCRIPTION",
   pats |-> <<<<"R", "O", "K", "U", " ", "F", "O", "R", " ", "P", "E", "A", "C", "O", "C", "K", " ", "T", "V", " ", "L", "L", "C">>>>],
  [kind |-> "any", cat |-> "PARAMOUNT_SUBSCRIPTION",
   pats |-> <<<<"G", "O", "O", "G", "L", "E", " ", "*", "P", "A", "R", "A", "M", "O", "U", "N", "T">>, <<"C", "B", "S", " ", "M", "O", "B", "I", "L", "E", " ", "A", "P", "P">>>>],
  [kind |-> "any", cat |-> "GAS",
   pats |-> gas_desc],
  [kind |-> "eq", cat |-> "FILING_TAXES",
   pats |-> <<<<"H", "R", "B", " ", "O", "N", "L", "I", "N", "E", " ", "T", "A", "X", " ", "P", "R", "O", "D", "U", "C", "T">>>>],
  [kind |-> "eq", cat |-> "DIAMOND_INSURANCE",
   pats |-> <<<<"J", "E", "W", "E", "L", "E", "R", "S", "-", "M", "U", "T", "U", "A", "L", "-", "P", "M", "N", "T">>>>],
  [kind |-> "eq", cat |-> "BLAZER_VISION_SUBSCRIPTION",
   pats |-> <<<<"B", "L", "A", "Z", "E", "R", "V", "I", "S", "I", "O", "N">>>>],
  [kind |-> "eq", cat |-> "PODCAST_SUBSCRIPTION",
   pats |-> <<<<"D", "U", "N", "C", "D", " ", "O", "N", " ", "P", "R", "I", "M", "E">>>>],
  [kind |-> "any", cat |-> "PORTLAND_ARTS_TAX",
   pats |-> <<<<"A", "R", "T", "S", " ", "T", "A", "X">>>>],
  [kind |-> "any", cat |-> "COMPUTERS_TECHNOLOGY_HARDWARE",
   pats |-> <<<<"O", "P", "A", "L", " ", "C", "A", "M", "E", "R", "A">>>>],
  [kind |-> "any", cat |-> "SHIPPING",
   pats |-> <<<<"U", "S", "P", "S", " ", "P", "O">>, <<"F", "E", "D", "E", "X", " ", "O", "F", "F", "I", "C">>>>],
  [kind |-> "any", cat |-> "RODEO",
   pats |-> <<<<"R", "O", "D", "E", "O">>>>],
  [kind |-> "any", cat |-> "OTHER_TRANSPORTATION",
   pats |-> <<<<"E", "N", "T", "E", "R", "P", "R", "I", "S", "E", " ", "R", "E", "N", "T">>, <<"A", "M", "T", "R", "A", "K">>>>]
>>

\* test_categorize_individual_bank_transaction fixture table (test_etl_staging.py:113-138)
BankFixtures == <<
  [description |-> <<"C", "L", "E", "A", "R", "C", "O", "V", "E", "R", " ", "I", "N", "C", " ", "P", "A", "Y", "R", "O", "L", "L">>,
   expected |-> "SALARY"],
  [description |-> <<"F", "E", "D", "E", "X", " ", "D", "A", "T", "A", "W", "O", "R", "K", "S", " ", "D", "I", "R", " ", "D", "E", "P">>,
   expected |-> "SALARY"],
  [description |-> <<"I", "N", "T", "E", "R", "E", "S", "T", " ", "P", "A", "Y", "M", "E", "N", "T">>,
   expected |-> "ACCOUNT_INTEREST"],
  [description |-> <<"V", "E", "R", "I", "Z", "O", "N", " ", "W", "I", "R", "E", "L", "E", "S", "S", " ", "P", "A", "Y", "M", "E", "N", "T", "S">>,
   expected |-> "CELL_PHONE_BILL"],
  [description |-> <<"V", "A", "N", "G", "U", "A", "R", "D", " ", "B", "U", "Y", " ", "I", "N", "V", "E", "S", "T", "M", "E", "N", "T">>,
   expected |-> "TRANSFER_TO_BROKERAGE"],
  [description |-> <<"V", "A", "N", "G", "U", "A", "R", "D", " ", "S", "E", "L", "L", " ", "I", "N", "V", "E", "S", "T", "M", "E", "N", "T">>,
   expected |-> "TRANSFER_FROM_BROKERAGE"],
  [description |-> <<"V", "E", "N", "M", "O", " ", "P", "A", "Y", "M", "E", "N", "T">>,
   expected |-> "VENMO_PAYMENT"],
  [description |-> <<"V", "E", "N", "M", "O", " ", "C", "A", "S", "H", "O", "U", "T">>,
   expected |-> "VENMO_CASHOUT"],
  [description |-> <<"P", "I", "N", "N", "A", "C", "L", "E", " ", "C", "O", "A">>,
   expected |-> "HOA_PAYMENT"],
  [description |-> <<"C", "H", "A", "S", "E", " ", "C", "R", "E", "D", "I", "T", " ", "C", "R", "D", " ", "A", "U", "T", "O", "P", "A", "Y">>,
   expected |-> "CREDIT_CARD_PAYMENT"],
  [description |-> <<"O", "N", "P", "O", "I", "N", "T", " ", "C", "O", "M", "M", "U", "N", "I", "T", " ", "R", "E", " ", "P", "A", "Y", "M", "E", "N", "T">>,
   expected |-> "MORTGAGE_PAYMENT"],
  [description |-> <<"O", "N", "L", "I", "N", "E", " ", "T", "R", "A", "N", "S", "F", "E", "R", " ", "T", "O", " ", "S", "A", "V">>,
   expected |-> "TRANSFER_BETWEEN_CHASE_ACCOUNTS"],
  [description |-> <<"D", "E", "P", "O", "S", "I", "T", " ", "I", "D", " ", "N", "U", "M", "B", "E", "R", " ", "1", "2", "3", "4", "5">>,
   expected |-> "CASH_DEPOSIT"],
  [description |-> <<"W", "I", "T", "H", "D", "R", "A", "W", "A", "L", " ", "0", "7", "/", "1", "4">>,
   expected |-> "CASH_WITHDRAWL_FOR_WEDDING"],
  [description |-> <<"W", "I", "T", "H", "D", "R", "A", "W", "A", "L", " ", "S", "O", "M", "E", "T", "H", "I", "N", "G">>,
   expected |-> "CASH_WITHDRAWL"],
  [description |-> <<"A", "L", "E", "X", " ", "E", "L", "I", "S", "E">>,
   expected |-> "WEDDING_PHOTOGRAPHER"],
  [description |-> <<"W", "E", "X", " ", "H", "E", "A", "L", "T", "H", " ", "P", "R", "E", "M", "I", "U", "M", "S", " ", "2", "8", "6", "7", "0", "9", "4", "0", " ", "W", "E", "B", " ", "I", "D">>,
   expected |-> "COBRA_PAYMENTS"],
  [description |-> <<"O", "R", " ", "R", "E", "V", "E", "N", "U", "E", " ", "D", "E", "P", "T", " ", "O", "R", "S", "T", "T", "A", "X", "R", "F", "D">>,
   expected |-> "TAX_REFUND"],
  [description |-> <<"I", "R", "S", " ", "T", "R", "E", "A", "S", " ", "3", "1", "0", " ", "T", "A", "X", " ", "R", "E", "F">>,
   expected |-> "TAX_REFUND"],
  [description |-> <<"C", "H", "E", "C", "K", " ", "#", " ", "1", "9", "7", "6", " ", "P", "A", "S", "S", "P", "O", "R", "T", "S", "E", "R", "V", "I", "C", "E", "S", " ", "P", "A", "Y", "M", "E", "N", "T", " ", "A", "R", "C", " ", "I", "D">>,
   expected |-> "PASSPORT_RENEWAL"],
  [description |-> <<"R", "A", "N", "D", "O", "M", " ", "T", "R", "A", "N", "S", "A", "C", "T", "I", "O", "N">>,
   expected |-> "OTHER"]
>>

\* test_categorize_individual_credit_card_transaction fixture table (test_etl_staging.py:169-226)
CreditCardFixtures == <<
  [description |-> <<"P", "A", "Y", "M", "E", "N", "T", " ", "T", "H", "A", "N", "K", " ", "Y", "O", "U", "-", "M", "O", "B", "I", "L", "E">>,
   expected |-> "CREDIT_CARD_PAYMENT"],
  [description |-> <<"S", "Q", " ", "*", "O", "V", "A", "T", "I", "O", "N", " ", "C", "O", "F", "F", "E", "E">>,
   expected |-> "OVATION"],
  [description |-> <<"S", "Q", " ", "*", "C", "O", "F", "F", "E", "E", " ", "T", "I", "M", "E">>,
   expected |-> "OTHER_COFFEE_SHOPS"],
  [description |-> <<"C", "H", "I", "P", "O", "T", "L", "E", " ", "O", "N", "L", "I", "N", "E">>,
   expected |-> "EATING_OUT_NBHD_LUNCH"],
  [description |-> <<"D", "O", "M", "I", "N", "O", " ", "P", "I", "Z", "Z", "A">>,
   expected |-> "DOMINOS"],
  [description |-> <<"H", "A", "W", "T", "H", "O", "R", "N", "E", " ", "T", "H", "E", "A", "T", "E", "R">>,
   expected |-> "CONCERTS"],
  [description |-> <<"P", "A", "Y", "M", "A", "S", "T", "E", "R", " ", "L", "O", "U", "N", "G", "E">>,
   expected |-> "NBHD_BARS"],
  [description |-> <<"L", "Y", "F", "T", " ", "*", "R", "I", "D", "E">>,
   expected |-> "RIDESHARE"],
  [description |-> <<"U", "B", "E", "R", " ", "*", "T", "R", "I", "P">>,
   expected |-> "RIDESHARE"],
  [description |-> <<"S", "A", "F", "E", "W", "A", "Y", " ", "#", "2", "7", "9", "0">>,
   expected |-> "GROCERIES"],
  [description |-> <<"L", "I", "Q", "U", "O", "R", " ", "S", "T", "O", "R", "E">>,
   expected |-> "LIQUOR_STORE"],
  [description |-> <<"P", "O", "R", "T", "L", "A", "N", "D", " ", "G", "E", "N", "E", "R", "A", "L", " ", "E", "L", "E", "C", "T", "R", "I", "C">>,
   expected |-> "PGE"],
  [description |-> <<"L", "A", " ", "F", "I", "T">>,
   expected |-> "GYM_MEMBERSHIP"],
  [description |-> <<"S", "P", "O", "T", "I", "F", "Y", " ", "S", "U", "B", "S", "C", "R", "I", "P", "T", "I", "O", "N">>,
   expected |-> "SPOTIFY_MEMBERSHIP"],
  [description |-> <<"C", "O", "M", "C", "A", "S", "T", " ", "C", "A", "B", "L", "E">>,
   expected |-> "COMCAST"],
  [description |-> <<"P", "O", "W", "E", "L", "L", "'", "S", " ", "B", "U", "R", "N", "S", "I", "D", "E">>,
   expected |-> "POWELLS"],
  [description |-> <<"R", "E", "G", "A", "L", " ", "C", "I", "N", "E", "M", "A", "S", " ", "I", "N", "C">>,
   expected |-> "MOVIES"],
  [description |-> <<"M", "C", "D", "O", "N", "A", "L", "D", "'", "S">>,
   expected |-> "FAST_FOOD"],
  [description |-> <<"N", "O", "R", "D", "S", "T", "R", "O", "M">>,
   expected |-> "CLOTHES"],
  [description |-> <<"A", "R", "S", "E", "N", "A", "L", " ", "S", "T", "O", "R", "E">>,
   expected |-> "ARSENAL"],
  [description |-> <<"E", "V", "E", "R", "Y", "D", "A", "Y", " ", "M", "U", "S", "I", "C">>,
   expected |-> "PHYSICAL_MEDIA"],
  [description |-> <<"A", "P", "P", "L", "E", ".", "C", "O", "M", "/", "B", "I", "L", "L">>,
   expected |-> "APPLE_CLOUD_STORAGE"],
  [description |-> <<"A", "I", "R", "B", "N", "B", " ", "*", " ", "H", "M", "P", "S", "D", "M", "X", "X", "9", "9">>,
   expected |-> "TRAVEL_LODGING"],
  [description |-> <<"A", "L", "A", "S", "K", "A", " ", "A", "I", "R">>,
   expected |-> "FLIGHTS"],
  [description |-> <<"P", "A", "R", "K", "I", "N", "G", " ", "L", "O", "T">>,
   expected |-> "PARKING"],
  [description |-> <<"M", "O", "D", "A", " ", "C", "E", "N", "T", "E", "R">>,
   expected |-> "MODA_CENTER"],
  [description |-> <<"R", "O", "K", "U", " ", "F", "O", "R", " ", "W", "A", "R", "N", "E", "R", "M", "E", "D", "I", "A", " ", "G", "L", "O", "B">>,
   expected |-> "HBO_SUBSCRIPTION"],
  [description |-> <<"P", "O", "R", "T", "L", "A", "N", "D", " ", "I", "N", "D", "O", "O", "R", " ", "S", "O", "C", "C", "E">>,
   expected |-> "INDOOR_SOCCER"],
  [description |-> <<"X", "B", "O", "X", " ", "G", "A", "M", "E", " ", "P", "A", "S", "S">>,
   expected |-> "VIDEO_GAMES"],
  [description |-> <<"P", "L", "A", "Y", "S", "T", "A", "T", "I", "O", "N", " ", "S", "T", "O", "R", "E">>,
   expected |-> "VIDEO_GAMES"],
  [description |-> <<"W", "I", "L", "L", "A", "M", "E", "T", "T", "E", " ", "D", "R", "Y">>,
   expected |-> "DRY_CLEANING"],
  [description |-> <<"P", "R", "I", "M", "E", " ", "V", "I", "D", "E", "O">>,
   expected |-> "VOD_AMAZON"],
  [description |-> <<"G", "E", "I", "C", "O", " ", "I", "N", "S", "U", "R", "A", "N", "C", "E">>,
   expected |-> "CAR_INSURANCE"],
  [description |-> <<"L", "E", "S", " ", "S", "C", "H", "W", "A", "B", " ", "T", "I", "R", "E", "S", " ", "#", "0", "2", "4", "3">>,
   expected |-> "CAR_MAINTENANCE"],
  [description |-> <<"A", "M", "A", "Z", "O", "N", " ", "W", "E", "B", " ", "S", "E", "R", "V", "I", "C", "E", "S">>,
   expected |-> "HOSTING_SOFTWARE_PROJECTS"],
  [description |-> <<"C", "L", "A", "U", "D", "E", ".", "A", "I", " ", "S", "U", "B", "S", "C", "R", "I", "P", "T", "I", "O", "N">>,
   expected |-> "AI_SUBSCRIPTION"],
  [description |-> <<"A", "M", "A", "Z", "O", "N", " ", "P", "R", "I", "M", "E">>,
   expected |-> "AMAZON_PRIME"],
  [description |-> <<"A", "M", "A", "Z", "O", "N", ".", "C", "O", "M">>,
   expected |-> "AMAZON_PURCHASE"],
  [description |-> <<"C", "H", "E", "S", "S", ".", "C", "O", "M">>,
   expected |-> "CHESS_SUBSCRIPTION"],
  [description |-> <<"T", "C", "G", "P", "L", "A", "Y", "E", "R">>,
   expected |-> "MTG"],
  [description |-> <<"R", "O", "K", "U", " ", "F", "O", "R", " ", "P", "E", "A", "C", "O", "C", "K", " ", "T", "V", " ", "L", "L", "C">>,
   expected |-> "PEACOCK_SUBSCRIPTION"],
  [description |-> <<"S", "H", "E", "L", "L", " ", "G", "A", "S">>,
   expected |-> "GAS"],
  [description |-> <<"H", "R", "B", " ", "O", "N", "L", "I", "N", "E", " ", "T", "A", "X", " ", "P", "R", "O", "D", "U", "C", "T">>,
   expected |-> "FILING_TAXES"],
  [description |-> <<"J", "E", "W", "E", "L", "E", "R", "S", "-", "M", "U", "T", "U", "A", "L", "-", "P", "M", "N", "T">>,
   expected |-> "DIAMOND_INSURANCE"],
  [description |-> <<"B", "L", "A", "Z", "E", "R", "V", "I", "S", "I", "O", "N">>,
   expected |-> "BLAZER_VISION_SUBSCRIPTION"],
  [description |-> <<"D", "U", "N", "C", "D", " ", "O", "N", " ", "P", "R", "I", "M", "E">>,
   expected |-> "PODCAST_SUBSCRIPTION"],
  [description |-> <<"A", "R", "T", "S", " ", "T", "A", "X", " ", "P", "A", "Y", "M", "E", "N", "T">>,
   expected |-> "PORTLAND_ARTS_TAX"],
  [description |-> <<"O", "P", "A", "L", " ", "C", "A", "M", "E", "R", "A">>,
   expected |-> "COMPUTERS_TECHNOLOGY_HARDWARE"],
  [description |-> <<"U", "S", "P", "S", " ", "P", "O", " ", "1", "2", "3", "4", "5">>,
   expected |-> "SHIPPING"],
  [description |-> <<"F", "E", "D", "E", "X", " ", "O", "F", "F", "I", "C", " ", "6", "7", "8", "9", "0">>,
   expected |-> "SHIPPING"],
  [description |-> <<"R", "O", "D", "E", "O", " ", "B", "U", "L", "L", " ", "R", "I", "D", "I", "N", "G">>,
   expected |-> "RODEO"],
  [description |-> <<"E", "N", "T", "E", "R", "P", "R", "I", "S", "E", " ", "R", "E", "N", "T", " ", "A", " ", "C", "A", "R">>,
   expected |-> "OTHER_TRANSPORTATION"],
  [description |-> <<"R", "A", "N", "D", "O", "M", " ", "M", "E", "R", "C", "H", "A", "N", "T">>,
   expected |-> "OTHER"]
>>
----------------------------------------------------------------------------
(* Category classifier (staging.py) *)

\* one test of the if/elif chain: `description == p`, or
\* any(pattern in description for pattern in pats)
RuleMatches(rule, d) ==
  IF rule.kind = "eq"
  THEN \E i \in DOMAIN rule.pats : d = rule.pats[i]
  ELSE \E i \in DOMAIN rule.pats : Contains(d, rule.pats[i])

\* a chain that never reaches its last elif
RECURSIVE FirstMatchSkipsLast(_, _, _)
FirstMatchSkipsLast(rules, d, i) ==
  IF i >= Len(rules) THEN "OTHER"
  ELSE IF RuleMatches(rules[i], d) THEN rules[i].cat
       ELSE FirstMatchSkipsLast(rules, d, i + 1)

\* if / elif / ... / else: the first test that holds returns its category,
\* the final else returns 'OTHER'
RECURSIVE FirstMatch(_, _, _)
FirstMatch(rules, d, i) ==
  IF i > Len(rules) THEN "OTHER"
  ELSE IF RuleMatches(rules[i], d) THEN rules[i].cat
       ELSE FirstMatch(rules, d, i + 1)

categorize_individual_bank_transaction(description) ==
  FirstMatch(BankRules, description, 1)

categorize_individual_credit_card_transaction(description) ==
  FirstMatch(CreditCardRules, description, 1)

\* numpy.select(condlist, choicelist, default): the choice of the first
\* condition that holds, else the default
RECURSIVE np_select(_, _, _, _)
np_select(condlist, choicelist, default, i) ==
  IF i > Len(condlist) THEN default
  ELSE IF condlist[i] THEN choicelist[i]
       ELSE np_select(condlist, choicelist, default, i + 1)

\* refinement that forgets the weekday branch
update_keeps_weekday_ovation(category, day_of_week, chase_category) ==
  np_select(
    << category = "OVATION" /\ day_of_week \in {6, 7},
       category = "OTHER" /\ chase_category = <<"F","o","o","d"," ","&"," ","D","r","i","n","k">> >>,
    << "OVATION_WEEKEND", "EATING_OUT" >>,
    category, 1)

\* staging._update_credit_card_transactions_categories, for one row
update_credit_card_transactions_categories(category, day_of_week, chase_category) ==
  np_select(
    << category = "OVATION" /\ day_of_week \in {6, 7},
       category = "OVATION" /\ ~(day_of_week \in {6, 7}),
       category = "OTHER" /\ chase_category = <<"F","o","o","d"," ","&"," ","D","r","i","n","k">> >>,
    << "OVATION_WEEKEND", "OVATION_WEEKDAY", "EATING_OUT" >>,
    category, 1)

----------------------------------------------------------------------------
(* The meta-category mapper (etl/layers/marts.py) *)

\* marts.py:55-67
subscriptions ==
  {"PODCAST_SUBSCRIPTION", "HBO_SUBSCRIPTION", "SPOTIFY_MEMBERSHIP", "APPLE_CLOUD_STORAGE", "AI_SUBSCRIPTION", "PARAMOUNT_SUBSCRIPTION", "CHESS_SUBSCRIPTION", "AMAZON_PRIME", "BLAZER_VISION_SUBSCRIPTION", "PEACOCK_SUBSCRIPTION", "VIDEO_GAMES"}

\* condlist / choicelist of np.select in assign_categories_to_concepts,
\* in source order (marts.py:72-113)
MetaRules == <<
  [cats |-> {"MORTGAGE_PAYMENT", "HOA_PAYMENT"},
   meta |-> "HOUSING"],
  [cats |-> {"JENNA_WEDDING_ACCT_TRANSFERS", "WEDDING_PHOTOGRAPHER", "WEDDING"},
   meta |-> "WEDDING"],
  [cats |-> subscriptions,
   meta |-> "ENTERTAINMENT_SUBSCRIPTIONS"],
  [cats |-> {"SALARY", "CASH_DEPOSIT", "TAX_REFUND", "ACCOUNT_INTEREST", "CASH_WITHDRAWL", "PORTLAND_ARTS_TAX", "FILING_TAXES"},
   meta |-> "INCOME"],
  [cats |-> {"CAR_INSURANCE", "DIAMOND_INSURANCE", "COBRA_PAYMENTS"},
   meta |-> "INSURANCE"],
  [cats |-> {"CELL_PHONE_BILL", "COMCAST", "PGE", "HAIRCUT"},
   meta |-> "UTILITIES"],
  [cats |-> {"FAST_FOOD", "OVATION_WEEKEND", "EATING_OUT_NBHD_LUNCH", "OVATION_WEEKDAY", "EATING_OUT", "DOMINOS", "OTHER_COFFEE_SHOPS", "NBHD_BARS"},
   meta |-> "EATING_OUT"],
  [cats |-> {"GROCERIES"},
   meta |-> "GROCERIES"],
  [cats |-> {"RIDESHARE", "TRAVEL_LODGING", "PARKING", "FLIGHTS", "OTHER_TRANSPORTATION", "PASSPORT_RENEWAL"},
   meta |-> "TRAVEL"],
  [cats |-> {"VOD_AMAZON", "MOVIES"},
   meta |-> "MOVIES"],
  [cats |-> {"PHYSICAL_MEDIA", "POWELLS", "MTG"},
   meta |-> "HOBBY_PHYSICAL_MEDIA"],
  [cats |-> {"CONCERTS", "RODEO", "MODA_CENTER"},
   meta |-> "CONCERTS_AND_SPORTING_EVENTS"],
  [cats |-> {"LIQUOR_STORE"},
   meta |-> "HOBBY_COCKTAILS"],
  [cats |-> {"GYM_MEMBERSHIP", "INDOOR_SOCCER", "SURFING"},
   meta |-> "HOBBY_SPORTS"],
  [cats |-> {"CLOTHES", "ARSENAL", "DRY_CLEANING"},
   meta |-> "CLOTHES"],
  [cats |-> {"GAS", "CAR_MAINTENANCE"},
   meta |-> "CAR"],
  [cats |-> {"VENMO_PAYMENT", "VENMO_CASHOUT"},
   meta |-> "VENMO"],
  [cats |-> {"HOSTING_SOFTWARE_PROJECTS", "COMPUTERS_TECHNOLOGY_HARDWARE"},
   meta |-> "HOBBY_TECH"],
  [cats |-> {"AMAZON_PURCHASE"},
   meta |-> "AMAZON_SPENDING"]
>>

\* test_assign_categories_to_meta_categories parameter table
\* (test_etl_marts.py:213-255)
MetaFixtures == <<
  [category |-> "MORTGAGE_PAYMENT", expected |-> "HOUSING"],
  [category |-> "HOA_PAYMENT", expected |-> "HOUSING"],
  [category |-> "WEDDING", expected |-> "WEDDING"],
  [category |-> "JENNA_WEDDING_ACCT_TRANSFERS", expected |-> "WEDDING"],
  [category |-> "SPOTIFY_MEMBERSHIP", expected |-> "ENTERTAINMENT_SUBSCRIPTIONS"],
  [category |-> "HBO_SUBSCRIPTION", expected |-> "ENTERTAINMENT_SUBSCRIPTIONS"],
  [category |-> "SALARY", expected |-> "INCOME"],
  [category |-> "TAX_REFUND", expected |-> "INCOME"],
  [category |-> "CASH_WITHDRAWL", expected |-> "CASH_WITHDRAWL"],
  [category |-> "CAR_INSURANCE", expected |-> "INSURANCE"],
  [category |-> "DIAMOND_INSURANCE", expected |-> "INSURANCE"],
  [category |-> "CELL_PHONE_BILL", expected |-> "UTILITIES"],
  [category |-> "COMCAST", expected |-> "UTILITIES"],
  [category |-> "PGE", expected |-> "UTILITIES"],
  [category |-> "FAST_FOOD", expected |-> "EATING_OUT"],
  [category |-> "EATING_OUT", expected |-> "EATING_OUT"],
  [category |-> "OVATION_WEEKDAY", expected |-> "EATING_OUT"],
  [category |-> "GROCERIES", expected |-> "GROCERIES"],
  [category |-> "FLIGHTS", expected |-> "TRAVEL"],
  [category |-> "TRAVEL_LODGING", expected |-> "TRAVEL"],
  [category |-> "VOD_AMAZON", expected |-> "MOVIES"],
  [category |-> "MOVIES", expected |-> "MOVIES"],
  [category |-> "POWELLS", expected |-> "HOBBY_PHYSICAL_MEDIA"],
  [category |-> "MTG", expected |-> "HOBBY_PHYSICAL_MEDIA"],
  [category |-> "CONCERTS", expected |-> "CONCERTS_AND_SPORTING_EVENTS"],
  [category |-> "MODA_CENTER", expected |-> "CONCERTS_AND_SPORTING_EVENTS"],
  [category |-> "LIQUOR_STORE", expected |-> "HOBBY_COCKTAILS"],
  [category |-> "GYM_MEMBERSHIP", expected |-> "HOBBY_SPORTS"],
  [category |-> "INDOOR_SOCCER", expected |-> "HOBBY_SPORTS"],
  [category |-> "CLOTHES", expected |-> "CLOTHES"],
  [category |-> "DRY_CLEANING", expected |-> "CLOTHES"],
  [category |-> "GAS", expected |-> "CAR"],
  [category |-> "CAR_MAINTENANCE", expected |-> "CAR"],
  [category |-> "VENMO_PAYMENT", expected |-> "VENMO"],
  [category |-> "HOSTING_SOFTWARE_PROJECTS", expected |-> "HOBBY_TECH"],
  [category |-> "COMPUTERS_TECHNOLOGY_HARDWARE", expected |-> "HOBBY_TECH"],
  [category |-> "AMAZON_PURCHASE", expected |-> "AMAZON_SPENDING"],
  [category |-> "RANDOM_CATEGORY", expected |-> "OTHER"]
>>

\* np.select over the isin() masks of one row: the choice of the first set
\* that holds the category, the default when none does
RECURSIVE FirstMetaRule(_, _)
FirstMetaRule(category, i) ==
  IF i > Len(MetaRules) THEN "OTHER"
  ELSE IF category \in MetaRules[i].cats THEN MetaRules[i].meta
  ELSE FirstMetaRule(category, i + 1)

\* the meta_category column assign_categories_to_concepts gives a row
assign_categories_to_concepts(category) == FirstMetaRule(category, 1)

----------------------------------------------------------------------------
(* Inputs of the row-level specifications *)

AccountTypes == {"bank_account", "credit_card"}

\* etl.types.AccountType values
RulesOf(acct) == IF acct = "bank_account" THEN BankRules ELSE CreditCardRules

FixturesOf(acct) == IF acct = "bank_account" THEN BankFixtures ELSE CreditCardFixtures

FoodAndDrink == <<"F","o","o","d"," ","&"," ","D","r","i","n","k">>

\* Chase's own category strings seen in the CSV exports
ChaseCategories == { FoodAndDrink,
                     <<"G","r","o","c","e","r","i","e","s">>,
                     <<"O","t","h","e","r">> }

DaysOfWeek == 1..7

FixtureDescriptions ==
  {BankFixtures[i].description : i \in DOMAIN BankFixtures}
    \cup {CreditCardFixtures[i].description : i \in DOMAIN CreditCardFixtures}

PatternsOf(rules) == UNION {Range(rules[i].pats) : i \in DOMAIN rules}

\* every fixture description and every literal of both rule tables
ClassifierInputs ==
  FixtureDescriptions \cup PatternsOf(BankRules) \cup PatternsOf(CreditCardRules)

CategoryCodes(acct) ==
  {RulesOf(acct)[i].cat : i \in DOMAIN RulesOf(acct)} \cup {"OTHER"}

----------------------------------------------------------------------------
(* The cleaning pipe of one row: clean_bank_account_data /                 *)
(* clean_credit_card_data chain _normalize_description, categorisation     *)
(* and, for credit cards, _update_credit_card_transactions_categories      *)

\* .pipe(_normalize_description)
NormalizeRow ==
  /\ rowStage = "raw"
  /\ rowDesc' = normalize_description(rowDesc)
  /\ twinDesc' = normalize_description(twinDesc)
  /\ rowStage' = "normalized"
  /\ UNCHANGED <<rowRaw, twinRaw, rowAcct, rowDow, rowChase, rowCat, twinCat, rowMeta>>
  /\ UNCHANGED <<pipeVars, etlVars, qryVars>>

\* .pipe(_categorize_all_bank_transactions)
CategorizeBankRow ==
  /\ rowStage = "normalized"
  /\ rowAcct = "bank_account"
  /\ rowCat' = categorize_individual_bank_transaction(rowDesc)
  /\ twinCat' = categorize_individual_bank_transaction(twinDesc)
  /\ rowStage' = "categorized"
  /\ UNCHANGED <<rowRaw, twinRaw, rowDesc, twinDesc, rowAcct, rowDow, rowChase, rowMeta>>
  /\ UNCHANGED <<pipeVars, etlVars, qryVars>>

\* .pipe(_categorize_all_credit_cards_transactions)
CategorizeCreditCardRow ==
  /\ rowStage = "normalized"
  /\ rowAcct = "credit_card"
  /\ rowCat' = categorize_individual_credit_card_transaction(rowDesc)
  /\ twinCat' = categorize_individual_credit_card_transaction(twinDesc)
  /\ rowStage' = "categorized"
  /\ UNCHANGED <<rowRaw, twinRaw, rowDesc, twinDesc, rowAcct, rowDow, rowChase, rowMeta>>
  /\ UNCHANGED <<pipeVars, etlVars, qryVars>>

\* .pipe(_update_credit_card_transactions_categories)
RefineCreditCardRow ==
  /\ rowStage = "categorized"
  /\ rowAcct = "credit_card"
  /\ rowCat' = update_credit_card_transactions_categories(rowCat, rowDow, rowChase)
  /\ twinCat' = update_credit_card_transactions_categories(twinCat, rowDow, rowChase)
  /\ rowStage' = "refined"
  /\ UNCHANGED <<rowRaw, twinRaw, rowDesc, twinDesc, rowAcct, rowDow, rowChase, rowMeta>>
  /\ UNCHANGED <<pipeVars, etlVars, qryVars>>

RowInit(inputs, days, chases) ==
  /\ rowRaw \in inputs
  /\ twinRaw = rowRaw
  /\ rowDesc = rowRaw
  /\ twinDesc = rowRaw
  /\ rowAcct \in AccountTypes
  /\ rowDow \in days
  /\ rowChase \in (IF rowAcct = "credit_card" THEN chases ELSE {<<>>})
  /\ rowCat = ""
  /\ twinCat = ""
  /\ rowMeta = ""
  /\ rowStage = "raw"
  /\ PipeIdle
  /\ EtlIdle
  /\ QryIdle

InitClassify == RowInit(ClassifierInputs, DaysOfWeek, ChaseCategories)

NextClassify ==
  \/ NormalizeRow
  \/ CategorizeBankRow
  \/ CategorizeCreditCardRow
  \/ RefineCreditCardRow

SpecClassify == InitClassify /\ [][NextClassify]_vars

----------------------------------------------------------------------------
(* Raw descriptions that differ only in letter case or whitespace amount:  *)
(* the twin of a row is edited before both rows enter the cleaning pipe    *)

MaxSeedLen == 3    \* longest generated raw description
MaxExtraWs == 1    \* whitespace characters the twin may gain

SeedAlphabet == {"o", "X", " ", "\t"}

RECURSIVE StringsUpTo(_)
StringsUpTo(n) ==
  IF n = 0 THEN {<<>>}
  ELSE LET shorter == StringsUpTo(n - 1) IN
       shorter \cup {Append(s, c) : s \in {t \in shorter : Len(t) = n - 1},
                                     c \in SeedAlphabet}

NormalizeSeeds ==
  StringsUpTo(MaxSeedLen)
    \cup { <<"x","b","o","x">>, <<"L","a"," ","f","i","t">> }

ToggleCase(c) ==
  IF c \in LowerLetters THEN UpperOf[c]
  ELSE IF \E l \in LowerLetters : UpperOf[l] = c
       THEN CHOOSE l \in LowerLetters : UpperOf[l] = c
       ELSE c

InsertAt(s, i, c) == SubSeq(s, 1, i) \o <<c>> \o SubSeq(s, i + 1, Len(s))

\* position i (0..Len) is at an end of s or next to a whitespace character
WhitespaceSlot(s, i) ==
  IF i = 0 \/ i = Len(s) THEN TRUE
  ELSE s[i] \in Whitespace \/ s[i + 1] \in Whitespace

\* the twin changes the case of one letter
VaryCase ==
  /\ rowStage = "raw"
  /\ \E i \in DOMAIN twinRaw :
       /\ ToggleCase(twinRaw[i]) # twinRaw[i]
       /\ twinRaw' = [twinRaw EXCEPT ![i] = ToggleCase(twinRaw[i])]
  /\ twinDesc' = twinRaw'
  /\ UNCHANGED <<rowRaw, rowDesc, rowAcct, rowDow, rowChase, rowCat, twinCat, rowMeta, rowStage>>
  /\ UNCHANGED <<pipeVars, etlVars, qryVars>>

\* the twin gains one whitespace character where whitespace already is, or
\* at an end
VaryWhitespace ==
  /\ rowStage = "raw"
  /\ Len(twinRaw) < Len(rowRaw) + MaxExtraWs
  /\ \E i \in 0..Len(twinRaw), c \in {" ", "\t", "\n"} :
       /\ WhitespaceSlot(twinRaw, i)
       /\ twinRaw' = InsertAt(twinRaw, i, c)
  /\ twinDesc' = twinRaw'
  /\ UNCHANGED <<rowRaw, rowDesc, rowAcct, rowDow, rowChase, rowCat, twinCat, rowMeta, rowStage>>
  /\ UNCHANGED <<pipeVars, etlVars, qryVars>>

InitNormalize == RowInit(NormalizeSeeds, {3}, {FoodAndDrink})

NextNormalize ==
  \/ VaryCase
  \/ VaryWhitespace
  \/ NormalizeRow
  \/ CategorizeBankRow
  \/ CategorizeCreditCardRow
  \/ RefineCreditCardRow

SpecNormalize == InitNormalize /\ [][NextNormalize]_vars

----------------------------------------------------------------------------
(* The meta-category mapper applied to one categorised row                 *)

\* every category code a staged row can carry, every code of a mapping set
\* and the codes of the test table (which holds codes of no mapping set)
MetaInputs ==
  CategoryCodes("bank_account") \cup CategoryCodes("credit_card")
    \cup {"OVATION_WEEKEND", "OVATION_WEEKDAY", "EATING_OUT"}
    \cup UNION {MetaRules[i].cats : i \in DOMAIN MetaRules}
    \cup {MetaFixtures[i].category : i \in DOMAIN MetaFixtures}

\* .pipe(assign_categories_to_concepts)
AssignMetaCategory ==
  /\ rowStage = "refined"
  /\ rowMeta' = assign_categories_to_concepts(rowCat)
  /\ rowStage' = "mapped"
  /\ UNCHANGED <<rowRaw, twinRaw, rowDesc, twinDesc, rowAcct, rowDow, rowChase,
                 rowCat, twinCat>>
  /\ UNCHANGED <<pipeVars, etlVars, qryVars>>

InitMeta ==
  /\ rowRaw = <<>> /\ twinRaw = <<>> /\ rowDesc = <<>> /\ twinDesc = <<>>
  /\ rowAcct \in AccountTypes
  /\ rowDow = 1
  /\ rowChase = <<>>
  /\ rowCat \in MetaInputs
  /\ twinCat = rowCat
  /\ rowMeta = ""
  /\ rowStage = "refined"
  /\ PipeIdle
  /\ EtlIdle
  /\ QryIdle

NextMeta == AssignMetaCategory

SpecMeta == InitMeta /\ [][NextMeta]_vars

----------------------------------------------------------------------------
(* The database tables and the CSV exports on disk                         *)

\* a date is <<year, month, day>>; money is a whole number of cents; a
\* numeric cell that pd.to_numeric(errors="coerce") could not parse is NaN
Money(cents) == [nan |-> FALSE, cents |-> cents]

NaN == [nan |-> TRUE, cents |-> 0]

\* Chase bank-account exports: Posting Date, Description, Amount, Balance
\* (the columns get_chase_bank_account_mapping renames); an empty
\* Description cell is <<>>
BankAccountFiles == {
  [name |-> "Chase1234_Activity_jan.CSV", account_type |-> "bank_account",
   account |-> "Chase1234",
   rows |-> <<
     [date |-> <<2024, 1, 15>>, amount |-> Money(250000),
      description |-> <<"C", "l", "e", "a", "r", "c", "o", "v", "e", "r", " ", "I", "n", "c", " ", "P", "a", "y", "r", "o", "l", "l", " ", " ", "P", "P", "D", " ", "I", "D", ":", " ", "1">>, balance |-> Money(500000)],
     [date |-> <<2024, 1, 20>>, amount |-> Money(-15050),
      description |-> <<"P", "a", "y", "m", "e", "n", "t", " ", "t", "o", " ", "C", "h", "a", "s", "e", " ", "c", "a", "r", "d", " ", "e", "n", "d", "i", "n", "g", " ", "i", "n", " ", "5", "6", "7", "8">>, balance |-> Money(484950)],
     [date |-> <<2024, 1, 20>>, amount |-> Money(-2000),
      description |-> <<"V", "E", "N", "M", "O", " ", "P", "A", "Y", "M", "E", "N", "T", " ", "1">>, balance |-> Money(482950)],
     [date |-> <<2024, 1, 22>>, amount |-> Money(-10000),
      description |-> <<"O", "n", "l", "i", "n", "e", " ", "T", "r", "a", "n", "s", "f", "e", "r", " ", "t", "o", " ", "S", "A", "V", " ", ".", ".", ".", "1", "1", "1", "1">>, balance |-> Money(472950)] >>],
  [name |-> "Chase1234_Activity_feb.CSV", account_type |-> "bank_account",
   account |-> "Chase1234",
   rows |-> <<
     [date |-> <<2024, 1, 20>>, amount |-> Money(-2000),
      description |-> <<"V", "E", "N", "M", "O", " ", "P", "A", "Y", "M", "E", "N", "T", " ", "1">>, balance |-> Money(482950)],
     [date |-> <<2024, 2, 1>>, amount |-> Money(-4500),
      description |-> <<" ", "V", "a", "n", "g", "u", "a", "r", "d", " ", " ", "B", "u", "y", " ", "I", "n", "v", "e", "s", "t", "m", "e", "n", "t">>, balance |-> Money(478450)],
     [date |-> <<2024, 2, 1>>, amount |-> Money(-4500),
      description |-> <<" ", "V", "a", "n", "g", "u", "a", "r", "d", " ", " ", "B", "u", "y", " ", "I", "n", "v", "e", "s", "t", "m", "e", "n", "t">>, balance |-> Money(473950)] >>],
  [name |-> "Chase1234_Activity_bad.CSV", account_type |-> "bank_account",
   account |-> "Chase1234",
   rows |-> <<
     [date |-> <<2024, 2, 3>>, amount |-> NaN,
      description |-> <<"A", "T", "M", " ", "W", "I", "T", "H", "D", "R", "A", "W", "A", "L">>, balance |-> Money(470000)],
     [date |-> <<2024, 2, 4>>, amount |-> Money(105),
      description |-> <<>>, balance |-> Money(470105)] >>] }

\* Chase credit-card exports: Transaction Date, Description, Category, Amount
CreditCardFiles == {
  [name |-> "Chase5678_Activity_jan.CSV", account_type |-> "credit_card",
   account |-> "Chase5678",
   rows |-> <<
     [date |-> <<2024, 1, 10>>, amount |-> Money(-1250),
      description |-> <<"S", "Q", " ", "*", "O", "V", "A", "T", "I", "O", "N", " ", "C", "O", "F", "F", "E", "E">>, category |-> <<"F", "o", "o", "d", " ", "&", " ", "D", "r", "i", "n", "k">>],
     [date |-> <<2024, 1, 13>>, amount |-> Money(-1250),
      description |-> <<"S", "Q", " ", "*", "O", "V", "A", "T", "I", "O", "N", " ", "C", "O", "F", "F", "E", "E">>, category |-> <<"F", "o", "o", "d", " ", "&", " ", "D", "r", "i", "n", "k">>],
     [date |-> <<2024, 1, 20>>, amount |-> Money(15050),
      description |-> <<"A", "U", "T", "O", "M", "A", "T", "I", "C", " ", "P", "A", "Y", "M", "E", "N", "T", " ", "-", " ", "T", "H", "A", "N", "K">>, category |-> <<>>],
     [date |-> <<2024, 1, 20>>, amount |-> Money(-2000),
      description |-> <<"V", "E", "N", "M", "O", " ", "P", "A", "Y", "M", "E", "N", "T", " ", "1">>, category |-> <<"O", "t", "h", "e", "r">>],
     [date |-> <<2024, 2, 1>>, amount |-> Money(-3000),
      description |-> <<"T", "H", "E", " ", "C", "O", "R", "N", "E", "R", " ", "D", "I", "N", "E", "R", " ", "A", "N", "D", " ", "G", "R", "I", "L", "L", " ", "O", "F", " ", "N", "O", "R", "T", "H", " ", "E", "A", "S", "T", " ", "P", "O", "R", "T", "L", "A", "N", "D", " ", "O", "R", "E", "G", "O", "N", " ", "1">>,
      category |-> <<"F", "o", "o", "d", " ", "&", " ", "D", "r", "i", "n", "k">>],
     [date |-> <<2024, 2, 1>>, amount |-> Money(-3000),
      description |-> <<"T", "H", "E", " ", "C", "O", "R", "N", "E", "R", " ", "D", "I", "N", "E", "R", " ", "A", "N", "D", " ", "G", "R", "I", "L", "L", " ", "O", "F", " ", "N", "O", "R", "T", "H", " ", "E", "A", "S", "T", " ", "P", "O", "R", "T", "L", "A", "N", "D", " ", "O", "R", "E", "G", "O", "N", " ", "2">>,
      category |-> <<"F", "o", "o", "d", " ", "&", " ", "D", "r", "i", "n", "k">>] >>],
  [name |-> "Chase5678_Activity_bad.CSV", account_type |-> "credit_card",
   account |-> "Chase5678",
   rows |-> <<
     [date |-> <<2024, 2, 3>>, amount |-> NaN,
      description |-> <<"A", "M", "A", "Z", "O", "N", " ", "M", "K", "T", "P", "L">>, category |-> <<"S", "h", "o", "p", "p", "i", "n", "g">>],
     [date |-> <<2024, 2, 4>>, amount |-> Money(-105),
      description |-> <<>>, category |-> <<"S", "h", "o", "p", "p", "i", "n", "g">>] >>] }

CsvFiles == BankAccountFiles \cup CreditCardFiles

FilesOf(acct) == {f \in CsvFiles : f.account_type = acct}

----------------------------------------------------------------------------
(* Text conversions of the raw layer (etl/layers/raw.py)                   *)

DigitChars == <<"0", "1", "2", "3", "4", "5", "6", "7", "8", "9">>

\* str() of a non-negative integer
RECURSIVE str_int(_)
str_int(n) ==
  IF n < 10 THEN <<DigitChars[n + 1]>>
  ELSE str_int(n \div 10) \o <<DigitChars[(n % 10) + 1]>>

\* a number printed with at least two digits
TwoDigits(n) == IF n < 10 THEN <<"0">> \o str_int(n) ELSE str_int(n)

\* str() of the pandas Timestamp of a date: "2024-01-15 00:00:00"
str_timestamp(date) ==
  str_int(date[1]) \o <<"-">> \o TwoDigits(date[2]) \o <<"-">> \o TwoDigits(date[3])
    \o <<" ", "0", "0", ":", "0", "0", ":", "0", "0">>

\* str() of a float holding a cent amount: 2500.0, -150.5, -12.34, nan
str_float(amount) ==
  IF amount.nan THEN <<"n", "a", "n">>
  ELSE LET abs == IF amount.cents < 0 THEN -amount.cents ELSE amount.cents
           frac == abs % 100
       IN (IF amount.cents < 0 THEN <<"-">> ELSE <<>>)
            \o str_int(abs \div 100) \o <<".">>
            \o (IF frac % 10 = 0 THEN str_int(frac \div 10) ELSE TwoDigits(frac))

\* how many characters of the description enter the id
IdDescriptionChars == 50

Prefix(s, n) == SubSeq(s, 1, IF Len(s) < n THEN Len(s) ELSE n)

\* CSVImporter._generate_id: the md5 digest prefix is represented by the
\* content it is computed from (equal contents give equal ids; distinct
\* contents are taken to give distinct digests)
generate_id(row) ==
  str_timestamp(row.date) \o str_float(row.amount)
    \o Prefix(row.description, IdDescriptionChars)

\* _clean_data: missing descriptions are filled (dates and amounts are
\* already parsed in the file records)
clean_data(df) ==
  [i \in DOMAIN df |->
     [df[i] EXCEPT !.description =
        IF df[i].description = <<>> THEN <<"N", "o", " ", "d", "e", "s", "c", "r", "i", "p", "t", "i", "o", "n">> ELSE @]]

\* the BankAccountTransaction / CreditCardTransaction object built from row
\* i of the cleaned frame of file f
Transaction(f, df, i) ==
  IF f.account_type = "bank_account"
  THEN [id |-> generate_id(df[i]), date |-> df[i].date, amount |-> df[i].amount,
        description |-> df[i].description, balance |-> df[i].balance,
        account |-> f.account, source_file |-> f.name]
  ELSE [id |-> generate_id(df[i]), date |-> df[i].date, amount |-> df[i].amount,
        description |-> df[i].description, category |-> df[i].category,
        card_number |-> f.account, source_file |-> f.name]

\* the row the INSERT of a transaction stores
Stored(acct, tx) ==
  IF acct = "bank_account"
  THEN [tx EXCEPT !.amount = @.cents, !.balance = @.cents]
  ELSE [tx EXCEPT !.amount = @.cents]

\* the INSERT of a row fails on a NOT NULL column that holds NaN
Rejected(acct, tx) ==
  tx.amount.nan \/ (acct = "bank_account" /\ tx.balance.nan)

Ids(rows) == {rows[i].id : i \in DOMAIN rows}

\* the upsert of import_csv without the look-up of the id
no_existing_row(rows, tx) == FALSE

\* a look-up of the id among the rows of the same source file only
existing_row_of_source_file(rows, tx) ==
  \E i \in DOMAIN rows : rows[i].id = tx.id /\ rows[i].source_file = tx.source_file

\* self.db.query(...).filter(id == transaction.id).first()
existing_row(rows, tx) == tx.id \in Ids(rows)

\* str(e) of the exceptions of the session: an INSERT that breaks a NOT
\* NULL constraint, and any use of a session whose flush failed
IntegrityError == "IntegrityError: NOT NULL constraint failed"

PendingRollbackError == "PendingRollbackError: This Session's transaction has been rolled back"

\* the loop over the rows of the frame and the final commit.  table holds
\* the committed rows, flushed the rows the session has inserted in its
\* open transaction, pending the rows added since the last flush; every
\* query flushes the pending rows first (autoflush).  A flush that fails,
\* in a query or in the commit, rolls the transaction back, raises, and
\* leaves the session unusable until a rollback() that nothing calls
RECURSIVE import_rows(_, _, _, _, _, _, _)
import_rows(f, df, i, table, flushed, pending, saved_count) ==
  IF \E k \in DOMAIN pending : Rejected(f.account_type, pending[k])
  THEN [status |-> "error", table |-> table, session |-> "deactive",
        rows |-> 0, saved |-> 0, df |-> <<>>, error |-> IntegrityError]
  ELSE IF i > Len(df)
  THEN [status |-> "success",
        table |-> table \o [k \in DOMAIN (flushed \o pending) |->
                              Stored(f.account_type, (flushed \o pending)[k])],
        session |-> "active", rows |-> Len(df), saved |-> saved_count, df |-> df,
        error |-> ""]
  ELSE LET transaction == Transaction(f, df, i)
           existing == existing_row(table \o flushed \o pending, transaction)
       IN import_rows(f, df, i + 1, table, flushed \o pending,
                      IF existing THEN <<>> ELSE <<transaction>>,
                      IF existing THEN saved_count ELSE saved_count + 1)

\* import_csv that saves the rows whatever dry_run is
import_csv_ignores_dry_run(f, table, session, dry_run) ==
  import_rows(f, clean_data(f.rows), 1, table, <<>>, <<>>, 0)

\* import_csv of file f by an importer whose session is in the given
\* state: what it reports (an exception is status "error", as
\* process_csv_file reports it), the frame it returns, the raw table and
\* the session it leaves
import_csv(f, table, session, dry_run) ==
  LET df == clean_data(f.rows)
  IN IF dry_run
     THEN [status |-> "success", table |-> table, session |-> session,
           rows |-> Len(df), saved |-> 0, df |-> df, error |-> ""]
     ELSE IF session = "deactive"
     THEN [status |-> "error", table |-> table, session |-> session,
           rows |-> 0, saved |-> 0, df |-> <<>>, error |-> PendingRollbackError]
     ELSE import_rows(f, df, 1, table, <<>>, <<>>, 0)

\* the orders in which list(set(csv_files)) can hand out the files of the
\* folder of an account type
FileOrders(acct) ==
  {order \in [1..Cardinality(FilesOf(acct)) -> FilesOf(acct)] :
     \A i, j \in DOMAIN order : i # j => order[i] # order[j]}

\* process_csv_file: the result record of one file; an exception of
\* import_csv is caught and reported in the record
process_csv_file(f, table, session, dry_run) ==
  LET imported == import_csv(f, table, session, dry_run)
  IN [result |-> [file |-> f.name, status |-> imported.status,
                  rows |-> imported.rows, error |-> imported.error],
      table |-> imported.table, session |-> imported.session]

\* the sum of the rows of the result records
RECURSIVE total_rows(_)
total_rows(results) ==
  IF results = <<>> THEN 0 ELSE results[1].rows + total_rows(Tail(results))

\* a batch whose first exception leaves the loop; the finally clause
\* closes the session
RECURSIVE process_all_csv_files_stops_on_error(_, _, _, _, _, _)
process_all_csv_files_stops_on_error(order, i, table, session, dry_run, results) ==
  IF i > Len(order)
  THEN [table |-> table, results |-> results, rows |-> total_rows(results),
        session |-> "closed"]
  ELSE LET processed == process_csv_file(order[i], table, session, dry_run)
       IN IF processed.result.status = "error"
          THEN [table |-> processed.table, results |-> results,
                rows |-> total_rows(results), session |-> "closed"]
          ELSE process_all_csv_files_stops_on_error(
                 order, i + 1, processed.table, processed.session, dry_run,
                 Append(results, processed.result))

\* process_all_csv_files: one importer, and so one session, processes the
\* files in the given order and is closed in the finally clause; returns
\* the raw table it leaves, the result records and the rows of the files
\* it reports as successful
RECURSIVE process_all_csv_files(_, _, _, _, _, _)
process_all_csv_files(order, i, table, session, dry_run, results) ==
  IF i > Len(order)
  THEN [table |-> table, results |-> results, rows |-> total_rows(results),
        session |-> "closed"]
  ELSE LET processed == process_csv_file(order[i], table, session, dry_run)
       IN process_all_csv_files(order, i + 1, processed.table, processed.session,
                                dry_run, Append(results, processed.result))

----------------------------------------------------------------------------
(* The staging layer (etl/layers/staging.py)                               *)

\* pandas .dt.weekday (Monday = 0) of a date
SakamotoTable == <<0, 3, 2, 5, 0, 3, 5, 1, 4, 6, 2, 4>>

weekday(date) ==
  LET y == IF date[2] < 3 THEN date[1] - 1 ELSE date[1]
      sunday0 == (y + (y \div 4) - (y \div 100) + (y \div 400)
                    + SakamotoTable[date[2]] + date[3]) % 7
  IN (sunday0 + 6) % 7

\* the columns _normalize_date adds to a row
normalize_date(row) ==
  [year |-> row.date[1],
   month |-> row.date[2],
   day_of_week |-> weekday(row.date) + 1,
   year_month |-> str_int(row.date[1]) \o <<"-">> \o TwoDigits(row.date[2])]

\* the descriptions the raw tables can hold, as the staging layer
\* normalizes them
StagedDescriptions(acct) ==
  UNION {{normalize_description(clean_data(f.rows)[i].description) :
            i \in DOMAIN f.rows} : f \in FilesOf(acct)}

\* .apply(_categorize_individual_..._transaction) over the description
\* column, tabulated once for the descriptions of the files
categorize_all_transactions ==
  [acct \in AccountTypes |->
     [d \in StagedDescriptions(acct) |->
        IF acct = "bank_account"
        THEN categorize_individual_bank_transaction(d)
        ELSE categorize_individual_credit_card_transaction(d)]]

\* clean_bank_account_data over the rows read from the raw table
clean_bank_account_data(rows) ==
  [i \in DOMAIN rows |->
     LET description == normalize_description(rows[i].description)
         dates == normalize_date(rows[i])
     IN [id |-> rows[i].id, date |-> rows[i].date, amount |-> rows[i].amount,
         description |-> description, balance |-> rows[i].balance,
         account |-> rows[i].account, source_file |-> rows[i].source_file,
         year |-> dates.year, month |-> dates.month,
         day_of_week |-> dates.day_of_week, year_month |-> dates.year_month,
         category |-> categorize_all_transactions["bank_account"][description]]]

\* a cleaning pipe that ends with drop_duplicates(subset=['description',
\* 'amount']): of the raw rows with one description and amount only the
\* first is kept
clean_credit_card_data_drop_duplicates(rows) ==
  LET first == [i \in DOMAIN rows |->
                  \A k \in 1..(i - 1) :
                    \/ rows[k].description # rows[i].description
                    \/ rows[k].amount # rows[i].amount]
      kept == SelectSeq([i \in DOMAIN rows |-> i], LAMBDA i : first[i])
  IN [n \in DOMAIN kept |->
        LET i == kept[n]
            description == normalize_description(rows[i].description)
            dates == normalize_date(rows[i])
        IN [id |-> rows[i].id, date |-> rows[i].date, amount |-> rows[i].amount,
            description |-> description, chase_category |-> rows[i].category,
            card_number |-> rows[i].card_number, source_file |-> rows[i].source_file,
            year |-> dates.year, month |-> dates.month,
            day_of_week |-> dates.day_of_week, year_month |-> dates.year_month,
            category |-> update_credit_card_transactions_categories(
                           categorize_all_transactions["credit_card"][description],
                           dates.day_of_week, rows[i].category)]]

\* clean_credit_card_data over the rows read from the raw table
clean_credit_card_data(rows) ==
  [i \in DOMAIN rows |->
     LET description == normalize_description(rows[i].description)
         dates == normalize_date(rows[i])
     IN [id |-> rows[i].id, date |-> rows[i].date, amount |-> rows[i].amount,
         description |-> description, chase_category |-> rows[i].category,
         card_number |-> rows[i].card_number, source_file |-> rows[i].source_file,
         year |-> dates.year, month |-> dates.month,
         day_of_week |-> dates.day_of_week, year_month |-> dates.year_month,
         category |-> update_credit_card_transactions_categories(
                        categorize_all_transactions["credit_card"][description],
                        dates.day_of_week, rows[i].category)]]

clean_data_of(acct, rows) ==
  IF acct = "bank_account" THEN clean_bank_account_data(rows)
  ELSE clean_credit_card_data(rows)

\* DataFrame.to_sql that adds the frame to the rows the table holds
to_sql_append(existing, df) == existing \o df

\* DataFrame.to_sql(..., if_exists='replace', index=False)
to_sql_replace(existing, df) == df

----------------------------------------------------------------------------
(* The marts layer (etl/layers/marts.py)                                   *)

\* ~df['category'].isin([...]) of _prepare_bank_account_tx_for_union
BankKept(row) ==
  row.category \notin {"TRANSFER_BETWEEN_CHASE_ACCOUNTS", "CREDIT_CARD_PAYMENT"}

\* ~df['category'].isin([...]) of _prepare_credit_card_tx_for_union
CreditCardKept(row) == row.category \notin {"CREDIT_CARD_PAYMENT"}

\* ~df['category'].isin([...]) of drop_savings_from_tx_tbl
NotSavings(row) ==
  row.category \notin {"TRANSFER_TO_BROKERAGE", "TRANSFER_FROM_BROKERAGE"}

\* the columns a staged row keeps in the unified stream
Unified(row, account_or_card_number, source) ==
  [id |-> row.id, date |-> row.date, amount |-> row.amount,
   description |-> row.description,
   account_or_card_number |-> account_or_card_number,
   year |-> row.year, month |-> row.month, day_of_week |-> row.day_of_week,
   year_month |-> row.year_month, category |-> row.category,
   source |-> source]

\* the bank rows of the stream without the filter on the category
prepare_bank_account_tx_keep_all(df) ==
  [i \in DOMAIN df |-> Unified(df[i], df[i].account, "bank_account")]

prepare_bank_account_tx_for_union(df) ==
  LET kept == SelectSeq(df, BankKept)
  IN [i \in DOMAIN kept |-> Unified(kept[i], kept[i].account, "bank_account")]

prepare_credit_card_tx_for_union(df) ==
  LET kept == SelectSeq(df, CreditCardKept)
  IN [i \in DOMAIN kept |-> Unified(kept[i], kept[i].card_number, "credit_card")]

\* pd.concat([credit_card, bank_account]) of the two staging tables
create_unified_transactions(bank_account, credit_card) ==
  prepare_credit_card_tx_for_union(credit_card)
    \o prepare_bank_account_tx_for_union(bank_account)

\* the table with the savings rows left in
drop_savings_keeps_all(df) == df

drop_savings_from_tx_tbl(df) == SelectSeq(df, NotSavings)

\* the frame create_unified_transactions_tbl writes
unified_transactions_tbl(bank_account, credit_card) ==
  LET df == drop_savings_from_tx_tbl(
              create_unified_transactions(bank_account, credit_card))
  IN [i \in DOMAIN df |->
        [id |-> df[i].id, date |-> df[i].date, amount |-> df[i].amount,
         description |-> df[i].description,
         account_or_card_number |-> df[i].account_or_card_number,
         year |-> df[i].year, month |-> df[i].month,
         day_of_week |-> df[i].day_of_week, year_month |-> df[i].year_month,
         category |-> df[i].category, source |-> df[i].source,
         meta_category |-> assign_categories_to_concepts(df[i].category)]]

----------------------------------------------------------------------------
(* The ETL operations on the database                                      *)

\* what the last operation was and what it reported
Op(op, acct, file, dry_run, status, rows, saved) ==
  [op |-> op, acct |-> acct, file |-> file, dry_run |-> dry_run,
   status |-> status, rows |-> rows, saved |-> saved]

\* the effect on the database of importing one file with a new importer
\* that is closed afterwards
ImportCsvEffect(f, dry_run) ==
  LET result == import_csv(f, rawTable[f.account_type], "active", dry_run)
  IN /\ rawTable' = [rawTable EXCEPT ![f.account_type] = result.table]
     /\ lastOp' = [op |-> "import_csv", acct |-> f.account_type, file |-> f.name,
                     dry_run |-> dry_run, status |-> result.status,
                     rows |-> result.rows, saved |-> result.saved, df |-> result.df]
     /\ UNCHANGED <<stagingTable, martsUnifiedTransactions>>

ImportBankAccountCsv ==
  /\ \E f \in BankAccountFiles, dry_run \in BOOLEAN : ImportCsvEffect(f, dry_run)
  /\ UNCHANGED <<rowVars, pipeVars, qryVars>>

ImportCreditCardCsv ==
  /\ \E f \in CreditCardFiles, dry_run \in BOOLEAN : ImportCsvEffect(f, dry_run)
  /\ UNCHANGED <<rowVars, pipeVars, qryVars>>

\* import_bank_accounts / import_credit_cards: the batch import of the
\* folder of the account type
ImportFolderEffect(acct, op) ==
  \E order \in FileOrders(acct) :
    LET result == process_all_csv_files(order, 1, rawTable[acct], "active", FALSE, <<>>)
    IN /\ rawTable' = [rawTable EXCEPT ![acct] = result.table]
       /\ lastOp' = [op |-> op, acct |-> acct, file |-> "", dry_run |-> FALSE,
                       status |-> "success", rows |-> result.rows, saved |-> 0,
                       results |-> result.results, session |-> result.session]
       /\ UNCHANGED <<stagingTable, martsUnifiedTransactions>>

\* create_staging_..._transactions
CreateStagingEffect(acct, op) ==
  LET df == clean_data_of(acct, rawTable[acct])
  IN /\ stagingTable' = [stagingTable EXCEPT ![acct] =
                           [built |-> TRUE, rows |-> to_sql_replace(@.rows, df)]]
     /\ lastOp' = Op(op, acct, "", FALSE, "success", Len(df), 0)
     /\ UNCHANGED <<rawTable, martsUnifiedTransactions>>

create_staging_bank_account_transactions ==
  /\ CreateStagingEffect("bank_account", "create_staging_bank_account_transactions")
  /\ UNCHANGED <<rowVars, pipeVars, qryVars>>

create_staging_credit_card_transactions ==
  /\ CreateStagingEffect("credit_card", "create_staging_credit_card_transactions")
  /\ UNCHANGED <<rowVars, pipeVars, qryVars>>

\* reading a staging table that was never built raises; the mart is left
\* as it is
create_unified_transactions_tbl ==
  /\ IF stagingTable["bank_account"].built /\ stagingTable["credit_card"].built
     THEN LET df == unified_transactions_tbl(stagingTable["bank_account"].rows,
                                             stagingTable["credit_card"].rows)
          IN /\ martsUnifiedTransactions' =
                  [built |-> TRUE,
                   rows |-> to_sql_replace(martsUnifiedTransactions.rows, df)]
             /\ lastOp' = Op("create_unified_transactions_tbl", "", "", FALSE,
                             "success", Len(df), 0)
     ELSE /\ martsUnifiedTransactions' = martsUnifiedTransactions
          /\ lastOp' = Op("create_unified_transactions_tbl", "", "", FALSE,
                          "error", 0, 0)
  /\ UNCHANGED <<rawTable, stagingTable>>
  /\ UNCHANGED <<rowVars, pipeVars, qryVars>>

\* drop_all_tables drops the raw tables (the tables of the models);
\* create_raw_schema, run when etl.layers.raw is next imported, creates
\* them again, empty
drop_all_tables ==
  /\ rawTable' = [acct \in AccountTypes |-> <<>>]
  /\ lastOp' = Op("drop_all_tables", "", "", FALSE, "success", 0, 0)
  /\ UNCHANGED <<stagingTable, martsUnifiedTransactions>>
  /\ UNCHANGED <<rowVars, pipeVars, qryVars>>

\* the database after create_raw_schema: empty raw tables, no other table
EtlInit ==
  /\ rawTable = [acct \in AccountTypes |-> <<>>]
  /\ stagingTable = [acct \in AccountTypes |-> [built |-> FALSE, rows |-> <<>>]]
  /\ martsUnifiedTransactions = [built |-> FALSE, rows |-> <<>>]
  /\ lastOp = Op("create_raw_schema", "", "", FALSE, "success", 0, 0)

Init ==
  /\ EtlInit
  /\ RowIdle
  /\ QryIdle
  /\ PipeIdle

Next ==
  \/ ImportBankAccountCsv
  \/ ImportCreditCardCsv
  \/ create_staging_bank_account_transactions
  \/ create_staging_credit_card_transactions
  \/ create_unified_transactions_tbl
  \/ drop_all_tables

Spec == Init /\ [][Next]_vars

----------------------------------------------------------------------------
(* The spending, income and savings marts                                  *)

\* the categories of the income mart
INCOME_CATEGORIES ==
  {"SALARY", "CASH_DEPOSIT", "TAX_REFUND", "ACCOUNT_INTEREST",
   "CASH_WITHDRAWL", "PORTLAND_ARTS_TAX", "FILING_TAXES"}

\* df['category'].isin([...]) of subset_transactions_on_savings
SAVINGS_CATEGORIES == {"TRANSFER_TO_BROKERAGE", "TRANSFER_FROM_BROKERAGE"}

IsSavings(row) == row.category \in SAVINGS_CATEGORIES

IsIncome(row) == row.category \in INCOME_CATEGORIES

NotIncome(row) == row.category \notin INCOME_CATEGORIES

\* .assign(amount=lambda df_: df_['amount'] * -1)
negate_amount(df) == [i \in DOMAIN df |-> [df[i] EXCEPT !.amount = -@]]

\* the savings rows with the sign of the bank statement
subset_transactions_on_savings_keeps_sign(df) == SelectSeq(df, IsSavings)

subset_transactions_on_savings(df) == negate_amount(SelectSeq(df, IsSavings))

drop_income_from_tx_tbl(df) == SelectSeq(df, NotIncome)

\* the frame with the meta_category column added
assign_categories_to_meta_categories(df) ==
  [i \in DOMAIN df |->
     [f \in DOMAIN df[i] \cup {"meta_category"} |->
        IF f = "meta_category"
        THEN assign_categories_to_concepts(df[i].category)
        ELSE df[i][f]]]

\* the frames the three builders write, of the unified stream
spending_tbl(unified) ==
  negate_amount(assign_categories_to_meta_categories(
    drop_income_from_tx_tbl(drop_savings_from_tx_tbl(unified))))

income_tbl(unified) ==
  assign_categories_to_meta_categories(SelectSeq(unified, IsIncome))

savings_tbl(unified) ==
  assign_categories_to_meta_categories(subset_transactions_on_savings(unified))

MartNames == {"marts_spending", "marts_income", "marts_savings"}

\* a builder reads the staging tables, derives its frame from the unified
\* stream and replaces its table
CreateMartEffect(name, op, df) ==
  /\ martsTable' = [martsTable EXCEPT ![name] =
                      [built |-> TRUE, rows |-> to_sql_replace(@.rows, df)]]
  /\ lastOp' = Op(op, "", "", FALSE, "success", Len(df), 0)
  /\ UNCHANGED <<rawTable, stagingTable, martsUnifiedTransactions>>
  /\ UNCHANGED <<metricsCall, apiCall>>
  /\ UNCHANGED <<rowVars, pipeVars>>

create_spending_tbl ==
  CreateMartEffect("marts_spending", "create_spending_tbl",
    spending_tbl(create_unified_transactions(stagingTable["bank_account"].rows,
                                             stagingTable["credit_card"].rows)))

create_income_tbl ==
  CreateMartEffect("marts_income", "create_income_tbl",
    income_tbl(create_unified_transactions(stagingTable["bank_account"].rows,
                                           stagingTable["credit_card"].rows)))

create_savings_tbl ==
  CreateMartEffect("marts_savings", "create_savings_tbl",
    savings_tbl(create_unified_transactions(stagingTable["bank_account"].rows,
                                            stagingTable["credit_card"].rows)))

\* the files of an account type imported by one importer, any of them in
\* any order
ImportedFileOrders(acct) ==
  UNION {{order \in [1..n -> FilesOf(acct)] :
            \A i, j \in DOMAIN order : i # j => order[i] # order[j]} :
         n \in 0..Cardinality(FilesOf(acct))}

\* the raw tables the imports can leave
RawTables(acct) ==
  {process_all_csv_files(order, 1, <<>>, "active", FALSE, <<>>).table :
     order \in ImportedFileOrders(acct)}

\* the database after the raw and the staging layer ran: no mart yet
InitMarts ==
  /\ rawTable \in [AccountTypes -> UNION {RawTables(acct) : acct \in AccountTypes}]
  /\ \A acct \in AccountTypes : rawTable[acct] \in RawTables(acct)
  /\ stagingTable = [acct \in AccountTypes |->
                       [built |-> TRUE, rows |-> clean_data_of(acct, rawTable[acct])]]
  /\ martsUnifiedTransactions = [built |-> FALSE, rows |-> <<>>]
  /\ lastOp = Op("create_staging_credit_card_transactions", "credit_card", "",
                 FALSE, "success", Len(stagingTable["credit_card"].rows), 0)
  /\ martsTable = [name \in MartNames |-> [built |-> FALSE, rows |-> <<>>]]
  /\ MetricsIdle /\ ApiIdle
  /\ RowIdle
  /\ PipeIdle

NextMarts ==
  \/ create_unified_transactions_tbl
  \/ create_spending_tbl
  \/ create_income_tbl
  \/ create_savings_tbl

SpecMarts == InitMarts /\ [][NextMarts]_vars

----------------------------------------------------------------------------
(* Values of the metrics (api/metrics.py): strings, floats, frames         *)

\* the characters of a year_month, in the order of their code points
YearMonthChars == <<"-", "0", "1", "2", "3", "4", "5", "6", "7", "8", "9">>

CodePoint(c) == CHOOSE k \in DOMAIN YearMonthChars : YearMonthChars[k] = c

\* Python a < b on str
RECURSIVE str_less(_, _)
str_less(a, b) ==
  IF b = <<>> THEN FALSE
  ELSE IF a = <<>> THEN TRUE
  ELSE IF a[1] # b[1] THEN CodePoint(a[1]) < CodePoint(b[1])
  ELSE str_less(Tail(a), Tail(b))

\* int() of a string of digits
RECURSIVE int_str(_)
int_str(s) ==
  IF s = <<>> THEN 0
  ELSE 10 * int_str(SubSeq(s, 1, Len(s) - 1)) + (CodePoint(s[Len(s)]) - 2)

\* pd.to_datetime of a "YYYY-MM" string: the first day of the month,
\* kept as the number of the month since year 0
to_datetime(year_month) ==
  12 * int_str(SubSeq(year_month, 1, 4)) + int_str(SubSeq(year_month, 6, 7)) - 1

\* .astype(str).str[:7] of the first day of a month
month_str(m) == str_int(m \div 12) \o <<"-">> \o TwoDigits((m % 12) + 1)

Abs(n) == IF n < 0 THEN 0 - n ELSE n

RECURSIVE Gcd(_, _)
Gcd(a, b) == IF b = 0 THEN a ELSE Gcd(b, a % b)

\* a float as an exact fraction of integers; n / 0 is inf, -inf or nan as
\* numpy divides
Float(num, den) ==
  IF den = 0
  THEN [num |-> IF num > 0 THEN 1 ELSE IF num < 0 THEN -1 ELSE 0, den |-> 0]
  ELSE LET g == Gcd(Abs(num), Abs(den))
           s == IF den < 0 THEN -1 ELSE 1
       IN [num |-> s * (num \div g), den |-> s * (den \div g)]

nan == [num |-> 0, den |-> 0]

isnan(x) == x.num = 0 /\ x.den = 0

isfinite(x) == x.den # 0

float_add(x, y) ==
  IF isfinite(x) /\ isfinite(y) THEN Float(x.num * y.den + y.num * x.den, x.den * y.den)
  ELSE IF isnan(x) \/ isnan(y) THEN nan
  ELSE IF isfinite(x) THEN y
  ELSE IF isfinite(y) \/ x = y THEN x
  ELSE nan

float_neg(x) == [num |-> 0 - x.num, den |-> x.den]

\* x == y on floats: nan equals nothing
float_eq(x, y) == ~isnan(x) /\ ~isnan(y) /\ x = y

float_less(x, y) ==
  /\ ~isnan(x) /\ ~isnan(y)
  /\ IF isfinite(x) /\ isfinite(y) THEN x.num * y.den < y.num * x.den
     ELSE IF isfinite(x) THEN y.num > 0
     ELSE IF isfinite(y) THEN x.num < 0
     ELSE x.num < y.num

\* Series.sum() of a float column: nan entries are skipped
RECURSIVE series_sum(_)
series_sum(xs) ==
  IF xs = <<>> THEN Float(0, 1)
  ELSE IF isnan(xs[1]) THEN series_sum(Tail(xs))
  ELSE float_add(xs[1], series_sum(Tail(xs)))

\* the sum of an integer column
RECURSIVE int_sum(_)
int_sum(xs) == IF xs = <<>> THEN 0 ELSE xs[1] + int_sum(Tail(xs))

\* Series.mean() of an integer column: nan for an empty column
int_mean(xs) == Float(int_sum(xs), Len(xs))

\* round(x, 4) * 100 of a float: the nearest multiple of 0.0001, ties to
\* the even one, as a percentage
round4_pct(x) ==
  IF ~isfinite(x) THEN x
  ELSE LET n == Abs(x.num) * 10000
           q == n \div x.den
           r == n % x.den
           k == IF 2 * r > x.den \/ (2 * r = x.den /\ q % 2 = 1) THEN q + 1 ELSE q
       IN Float((IF x.num < 0 THEN 0 - k ELSE k), 100)

float_div(x, y) ==
  IF isnan(x) \/ isnan(y) THEN nan
  ELSE IF isfinite(x) /\ isfinite(y) THEN Float(x.num * y.den, x.den * y.num)
  ELSE IF isfinite(x) THEN Float(0, 1)
  ELSE IF isfinite(y) THEN (IF y.num < 0 THEN float_neg(x) ELSE x)
  ELSE nan

\* F of the value of x, which is computed once however often F uses it
With(x, F(_)) == CHOOSE y \in {F(v) : v \in {x}} : TRUE

\* the values of a column of a frame
Column(df, col) == [i \in DOMAIN df |-> df[i][col]]

\* the distinct values of a string column, ascending and descending
RECURSIVE sort_values(_, _)
sort_values(values, ascending) ==
  IF values = {} THEN <<>>
  ELSE LET first == CHOOSE v \in values :
                      \A w \in values :
                        IF ascending THEN ~str_less(w, v) ELSE ~str_less(v, w)
       IN <<first>> \o sort_values(values \ {first}, ascending)

----------------------------------------------------------------------------
(* The metrics engine (api/metrics.py)                                     *)

MORTGAGE_CONTRIBUTION == 850

\* an amount of whole dollars in the unit of the amount columns (cents)
Dollars(n) == Float(100 * n, 1)

\* what a call returns or raises
Returns(value) == [error |-> "", value |-> value]

Raises(error) == [error |-> error, value |-> <<>>]

InvalidPeriod == "ValueError: Invalid period parameter"

\* the most recent months taken from the wrong end
determine_first_X_months_from_dataset(df, number_of_months) ==
  LET months == sort_values(Range(Column(df, "year_month")), TRUE)
  IN SubSeq(months, 1, IF number_of_months < Len(months)
                       THEN number_of_months ELSE Len(months))

determine_last_X_months_from_dataset(df, number_of_months) ==
  LET months == sort_values(Range(Column(df, "year_month")), FALSE)
  IN SubSeq(months, 1, IF number_of_months < Len(months)
                       THEN number_of_months ELSE Len(months))

include_wedding_spending(df, include_wedding) ==
  LET NotWedding(row) == row.meta_category # "WEDDING"
  IN IF ~include_wedding THEN SelectSeq(df, NotWedding) ELSE df

\* df.loc[df["year_month"].isin(determine_last_X_months_from_dataset(...))]
last_months(df, number_of_months) ==
  LET months == Range(determine_last_X_months_from_dataset(df, number_of_months))
      IsIn(row) == row.year_month \in months
  IN SelectSeq(df, IsIn)

\* df.loc[df["year"] == df["year"].max()]
year_to_date(df) ==
  LET years == Range(Column(df, "year"))
      IsMax(row) == \A y \in years : y <= row.year
  IN SelectSeq(df, IsMax)

\* an unknown period answered with the full dataset
subset_data_by_period_defaults(df, period) ==
  IF period = "ytd" THEN Returns(year_to_date(df))
  ELSE IF period = "last_1_months" THEN Returns(last_months(df, 1))
  ELSE IF period = "last_3_months" THEN Returns(last_months(df, 3))
  ELSE IF period = "last_6_months" THEN Returns(last_months(df, 6))
  ELSE IF period = "last_12_months" THEN Returns(last_months(df, 12))
  ELSE Returns(df)

subset_data_by_period(df, period) ==
  IF period = "ytd" THEN Returns(year_to_date(df))
  ELSE IF period = "last_1_months" THEN Returns(last_months(df, 1))
  ELSE IF period = "last_3_months" THEN Returns(last_months(df, 3))
  ELSE IF period = "last_6_months" THEN Returns(last_months(df, 6))
  ELSE IF period = "last_12_months" THEN Returns(last_months(df, 12))
  ELSE IF period = "full_history" THEN Returns(df)
  ELSE Raises(InvalidPeriod)

\* the wedding rows removed before the period is cut
spending_data_wedding_first(df, period, include_wedding) ==
  subset_data_by_period(include_wedding_spending(df, include_wedding), period)

\* .pipe(subset_data_by_period, period)
\* .pipe(include_wedding_spending, include_wedding) of marts_spending
spending_data(df, period, include_wedding) ==
  LET window == subset_data_by_period(df, period)
  IN IF window.error # "" THEN window
     ELSE Returns(include_wedding_spending(window.value, include_wedding))

\* meta-categories in the order groupby sorts them (str order)
MetaCategories ==
  <<"AMAZON_SPENDING", "CAR", "CLOTHES", "CONCERTS_AND_SPORTING_EVENTS",
    "EATING_OUT", "ENTERTAINMENT_SUBSCRIPTIONS", "GROCERIES", "HOBBY_COCKTAILS",
    "HOBBY_PHYSICAL_MEDIA", "HOBBY_SPORTS", "HOBBY_TECH", "HOUSING", "INCOME",
    "INSURANCE", "MOVIES", "OTHER", "TRAVEL", "UTILITIES", "VENMO", "WEDDING">>

\* the rows of a frame with a value in a column
Where(df, col, value) ==
  LET Has(row) == row[col] = value
  IN SelectSeq(df, Has)

\* data.groupby(["year_month", "meta_category"]).agg(sum, count), per
\* meta_category: the months of its groups
GroupMonths(data, meta_category) ==
  Range(Column(Where(data, "meta_category", meta_category), "year_month"))

\* one row of the result per meta_category of the data
spending_by_meta_category_row(data, meta_category, number_of_months) ==
  LET rows == Where(data, "meta_category", meta_category)
      total_spend == int_sum(Column(rows, "amount"))
      months_with_transactions == Cardinality(GroupMonths(data, meta_category))
  IN [meta_category |-> meta_category,
      number_of_months_in_sample |-> number_of_months,
      months_with_transactions |-> months_with_transactions,
      spending_occurs_every_month |-> number_of_months = months_with_transactions,
      avg_monthly_transactions |-> Float(Len(rows), months_with_transactions),
      total_spend |-> total_spend,
      avg_monthly_spend |-> Float(total_spend, number_of_months)]

\* .sort_values("avg_monthly_spend", ascending=True); rows with the same
\* average keep the order of the groups
RECURSIVE sort_by_avg_monthly_spend(_)
sort_by_avg_monthly_spend(rows) ==
  IF rows = <<>> THEN <<>>
  ELSE LET k == CHOOSE i \in DOMAIN rows :
                  /\ \A j \in DOMAIN rows :
                       ~float_less(rows[j].avg_monthly_spend, rows[i].avg_monthly_spend)
                  /\ \A j \in 1..(i - 1) :
                       float_less(rows[i].avg_monthly_spend, rows[j].avg_monthly_spend)
       IN <<rows[k]>> \o sort_by_avg_monthly_spend(
                           SubSeq(rows, 1, k - 1) \o SubSeq(rows, k + 1, Len(rows)))

\* monthly_data["year_month"].unique().shape[0]
number_of_months_of(data) == Cardinality(Range(Column(data, "year_month")))

calculate_average_monthly_spending_by_meta_category(db, period, include_wedding) ==
  With(spending_data(db["marts_spending"].rows, period, include_wedding), LAMBDA data :
    IF data.error # "" THEN data
    ELSE
      LET number_of_months == number_of_months_of(data.value)
          InData(meta_category) == GroupMonths(data.value, meta_category) # {}
          groups == SelectSeq(MetaCategories, InData)
      IN With([k \in DOMAIN groups |->
                 spending_by_meta_category_row(data.value, groups[k],
                                               number_of_months)], LAMBDA rows :
         With(series_sum(Column(rows, "avg_monthly_spend")), LAMBDA total :
           Returns(sort_by_avg_monthly_spend(
             [k \in DOMAIN rows |->
                [f \in DOMAIN rows[k] \cup {"pct_of_avg_monthly_spend"} |->
                   IF f = "pct_of_avg_monthly_spend"
                   THEN round4_pct(float_div(rows[k].avg_monthly_spend, total))
                   ELSE rows[k][f]]])))))

\* groupby(["year_month"]).agg(sum): the months ascending with the sum of
\* the amounts of their rows
monthly_sums(data) ==
  LET months == sort_values(Range(Column(data, "year_month")), TRUE)
  IN [k \in DOMAIN months |->
        [year_month |-> months[k],
         amount |-> int_sum(Column(Where(data, "year_month", months[k]), "amount"))]]

calculate_monthly_spending(db, period, include_wedding) ==
  LET data == spending_data(db["marts_spending"].rows, period, include_wedding)
  IN IF data.error # "" THEN data
     ELSE LET sums == monthly_sums(data.value)
          IN Returns([k \in DOMAIN sums |->
                        [year_month |-> sums[k].year_month,
                         monthly_spending |-> sums[k].amount]])

\* the series without the months between the observed ones
monthly_saving_observed_months(sums) ==
  [k \in DOMAIN sums |->
     [year_month |-> sums[k].year_month, monthly_savings |-> sums[k].amount]]

\* .reindex(pd.date_range(start=index.min(), end=index.max(), freq="MS"),
\*          fill_value=0) and the year_month converted back to "YYYY-MM"
reindex_month_starts(sums) ==
  LET index == [k \in DOMAIN sums |-> to_datetime(sums[k].year_month)]
      start == CHOOSE m \in Range(index) : \A n \in Range(index) : m <= n
      end == CHOOSE m \in Range(index) : \A n \in Range(index) : n <= m
  IN [k \in 1..(end - start + 1) |->
        LET month == start + k - 1
            at == {j \in DOMAIN index : index[j] = month}
        IN [year_month |-> month_str(month),
            monthly_savings |-> IF at = {} THEN 0
                                ELSE sums[CHOOSE j \in at : TRUE].amount]]

\* pd.date_range raises for an empty index, whose min() and max() are NaT
NaTError == "ValueError: Neither start nor end can be NaT"

calculate_monthly_saving(db, period) ==
  LET data == subset_data_by_period(db["marts_savings"].rows, period)
  IN IF data.error # "" THEN data
     ELSE IF data.value = <<>> THEN Raises(NaTError)
     ELSE Returns(reindex_month_starts(monthly_sums(data.value)))

calculate_average_monthly_saving(db, period) ==
  LET monthly == calculate_monthly_saving(db, period)
  IN IF monthly.error # "" THEN monthly
     ELSE Returns(int_mean(Column(monthly.value, "monthly_savings")))

calculate_monthly_salary(db, period) ==
  LET data == subset_data_by_period(db["marts_income"].rows, period)
  IN IF data.error # "" THEN data
     ELSE LET sums == monthly_sums(Where(data.value, "category", "SALARY"))
          IN Returns([k \in DOMAIN sums |->
                        [year_month |-> sums[k].year_month,
                         monthly_salary |-> sums[k].amount]])

calculate_average_monthly_salary(db, period) ==
  LET monthly == calculate_monthly_salary(db, period)
  IN IF monthly.error # "" THEN monthly
     ELSE Returns(int_mean(Column(monthly.value, "monthly_salary")))

calculate_average_monthly_budget(db, period, include_wedding) ==
  With(calculate_average_monthly_spending_by_meta_category(db, period, include_wedding),
       LAMBDA by_category :
  With(calculate_average_monthly_salary(db, period), LAMBDA salary :
    IF by_category.error # "" THEN by_category
    ELSE IF salary.error # "" THEN salary
    ELSE
      LET spending == [k \in DOMAIN by_category.value |->
                         [description |-> by_category.value[k].meta_category,
                          amount |-> float_neg(by_category.value[k].avg_monthly_spend),
                          category |-> "SPENDING"]]
          income == <<[description |-> "SALARY", amount |-> salary.value,
                       category |-> "INCOME"],
                      [description |-> "MORTGAGE_CONTRIBUTION",
                       amount |-> Dollars(MORTGAGE_CONTRIBUTION),
                       category |-> "INCOME"]>>
      IN With(spending \o income, LAMBDA df :
           Returns(df \o <<[description |-> "CASH_FLOW",
                            amount |-> series_sum(Column(df, "amount")),
                            category |-> "CASH_FLOW"]>>))))

\* the value of a column in the row of a month, nan without such a row
\* (merge how="left")
MergedValue(df, year_month, col) ==
  LET rows == Where(df, "year_month", year_month)
  IN IF rows = <<>> THEN nan ELSE Float(rows[1][col], 1)

\* Series.cumsum(): nan entries stay nan and add nothing
cumsum(xs) ==
  [k \in DOMAIN xs |-> IF isnan(xs[k]) THEN nan ELSE series_sum(SubSeq(xs, 1, k))]

calculate_monthly_budget_history(db, period, include_wedding) ==
  With(calculate_monthly_spending(db, period, include_wedding), LAMBDA spending :
  With(calculate_monthly_salary(db, period), LAMBDA salary :
  With(calculate_monthly_saving(db, period), LAMBDA saving :
    IF spending.error # "" THEN spending
    ELSE IF salary.error # "" THEN salary
    ELSE IF saving.error # "" THEN saving
    ELSE
      With([k \in DOMAIN spending.value |->
              [year_month |-> spending.value[k].year_month,
               monthly_spending |-> spending.value[k].monthly_spending,
               monthly_salary |->
                 MergedValue(salary.value, spending.value[k].year_month,
                             "monthly_salary"),
               monthly_savings |->
                 MergedValue(saving.value, spending.value[k].year_month,
                             "monthly_savings")]], LAMBDA merged :
      With(cumsum(Column(merged, "monthly_savings")), LAMBDA cumulative :
        Returns([k \in DOMAIN merged |->
                   [f \in DOMAIN merged[k] \cup {"cumulative_savings"} |->
                      IF f = "cumulative_savings" THEN cumulative[k]
                      ELSE merged[k][f]]]))))))

----------------------------------------------------------------------------
(* The mart tables the metrics are computed of                             *)

MaxMonths == 3

\* what a month of the sample statements holds: [category, amount, day]
MonthKinds == {"full", "paid", "wedding", "saved", "quiet", "none"}

KindRows(kind) ==
  CASE kind = "full" ->
         <<[category |-> "SALARY", amount |-> 3000, day |-> 15],
           [category |-> "TRANSFER_TO_BROKERAGE", amount |-> -400, day |-> 16],
           [category |-> "GROCERIES", amount |-> -70, day |-> 17]>>
    [] kind = "paid" ->
         <<[category |-> "SALARY", amount |-> 3000, day |-> 15],
           [category |-> "GROCERIES", amount |-> -100, day |-> 3],
           [category |-> "GROCERIES", amount |-> -50, day |-> 20]>>
    [] kind = "wedding" ->
         <<[category |-> "WEDDING_PHOTOGRAPHER", amount |-> -1000, day |-> 5]>>
    [] kind = "saved" ->
         <<[category |-> "TRANSFER_TO_BROKERAGE", amount |-> -500, day |-> 1],
           [category |-> "EATING_OUT", amount |-> -20, day |-> 7],
           [category |-> "WEDDING", amount |-> -300, day |-> 9]>>
    [] kind = "quiet" ->
         <<[category |-> "TRANSFER_FROM_BROKERAGE", amount |-> 200, day |-> 2],
           [category |-> "SALARY", amount |-> 3000, day |-> 15]>>
    [] OTHER -> <<>>

\* the staged bank rows of one month of a statement
MonthRows(month, kind) ==
  [k \in DOMAIN KindRows(kind) |->
     LET date == <<month \div 12, (month % 12) + 1, KindRows(kind)[k].day>>
         cal == normalize_date([date |-> date])
     IN [id |-> str_timestamp(date) \o <<DigitChars[k + 1]>>,
         date |-> date, amount |-> KindRows(kind)[k].amount,
         description |-> <<>>, account |-> "Chase1234",
         year |-> cal.year, month |-> cal.month,
         day_of_week |-> cal.day_of_week, year_month |-> cal.year_month,
         category |-> KindRows(kind)[k].category]]

\* the staged rows of the months first, first + 1, ...
RECURSIVE StatementRows(_, _)
StatementRows(first, kinds) ==
  IF kinds = <<>> THEN <<>>
  ELSE MonthRows(first, kinds[1]) \o StatementRows(first + 1, Tail(kinds))

Reverse(s) == [k \in DOMAIN s |-> s[Len(s) + 1 - k]]

\* statements of up to MaxMonths months from November 2023 on
ShortStatements ==
  UNION {{StatementRows(12 * 2023 + 10, kinds) : kinds \in [1..n -> MonthKinds]} :
         n \in 0..MaxMonths}

\* statements of seven and of thirteen months from January 2023 on
LongKinds == <<"full", "wedding", "paid", "saved", "quiet">>

LongStatements ==
  {StatementRows(12 * 2023,
                 [k \in 1..n |-> LongKinds[((k + shift) % Len(LongKinds)) + 1]]) :
     n \in {7, 13}, shift \in 0..(Len(LongKinds) - 1)}
    \cup {StatementRows(12 * 2023, [k \in 1..13 |-> "full"])}

\* the bank staging tables the marts are built of; the long ones also in
\* the opposite order
Statements ==
  ShortStatements \cup LongStatements \cup {Reverse(rows) : rows \in LongStatements}

\* the three marts built of a bank staging table
MartsOf(bank_account) ==
  LET unified == create_unified_transactions(bank_account, <<>>)
  IN [name \in MartNames |->
        [built |-> TRUE,
         rows |-> IF name = "marts_spending" THEN spending_tbl(unified)
                  ELSE IF name = "marts_income" THEN income_tbl(unified)
                  ELSE savings_tbl(unified)]]

----------------------------------------------------------------------------
(* Calls of the metrics engine                                             *)

Periods ==
  {"ytd", "last_1_months", "last_3_months", "last_6_months", "last_12_months",
   "full_history"}

PeriodInputs == Periods \cup {"invalid_period", "last_2_months"}

\* a call of a function of api/metrics.py: its arguments, the analysis
\* dataset it aggregated and what it returned or raised
Call(func, table, period, include_wedding, data, outcome) ==
  [func |-> func, table |-> table, period |-> period,
   include_wedding |-> include_wedding, data |-> data,
   error |-> outcome.error, result |-> outcome.value]

\* no call is being served
NoCall == Call("none", "", "", TRUE, <<>>, Returns(<<>>))

\* a call is served at a time and reads the marts, which it leaves as
\* they are
MetricsCallEffect(call) ==
  /\ metricsCall = NoCall
  /\ metricsCall' = call
  /\ UNCHANGED <<martsTable, apiCall>>
  /\ UNCHANGED <<rowVars, pipeVars, etlVars>>

SubsetDataByPeriod ==
  \E table \in MartNames, period \in PeriodInputs :
    MetricsCallEffect(
      Call("subset_data_by_period", table, period, TRUE, <<>>,
           subset_data_by_period(martsTable[table].rows, period)))

CalculateAverageMonthlySpendingByMetaCategory ==
  \E period \in PeriodInputs, include_wedding \in BOOLEAN :
    MetricsCallEffect(
      Call("calculate_average_monthly_spending_by_meta_category", "marts_spending",
           period, include_wedding,
           spending_data(martsTable["marts_spending"].rows, period,
                         include_wedding).value,
           calculate_average_monthly_spending_by_meta_category(
             martsTable, period, include_wedding)))

CalculateMonthlySpending ==
  \E period \in PeriodInputs, include_wedding \in BOOLEAN :
    MetricsCallEffect(
      Call("calculate_monthly_spending", "marts_spending", period, include_wedding,
           spending_data(martsTable["marts_spending"].rows, period,
                         include_wedding).value,
           calculate_monthly_spending(martsTable, period, include_wedding)))

CalculateMonthlySaving ==
  \E period \in PeriodInputs :
    MetricsCallEffect(
      Call("calculate_monthly_saving", "marts_savings", period, TRUE, <<>>,
           calculate_monthly_saving(martsTable, period)))

CalculateAverageMonthlySaving ==
  \E period \in PeriodInputs :
    MetricsCallEffect(
      Call("calculate_average_monthly_saving", "marts_savings", period, TRUE, <<>>,
           calculate_average_monthly_saving(martsTable, period)))

CalculateMonthlySalary ==
  \E period \in PeriodInputs :
    MetricsCallEffect(
      Call("calculate_monthly_salary", "marts_income", period, TRUE, <<>>,
           calculate_monthly_salary(martsTable, period)))

CalculateAverageMonthlySalary ==
  \E period \in PeriodInputs :
    MetricsCallEffect(
      Call("calculate_average_monthly_salary", "marts_income", period, TRUE, <<>>,
           calculate_average_monthly_salary(martsTable, period)))

CalculateAverageMonthlyBudget ==
  \E period \in PeriodInputs, include_wedding \in BOOLEAN :
    MetricsCallEffect(
      Call("calculate_average_monthly_budget", "marts_spending", period,
           include_wedding, <<>>,
           calculate_average_monthly_budget(martsTable, period, include_wedding)))

CalculateMonthlyBudgetHistory ==
  \E period \in PeriodInputs, include_wedding \in BOOLEAN :
    MetricsCallEffect(
      Call("calculate_monthly_budget_history", "marts_spending", period,
           include_wedding, <<>>,
           calculate_monthly_budget_history(martsTable, period, include_wedding)))

\* the caller takes the result or the exception of the call
ReturnToCaller ==
  /\ metricsCall # NoCall
  /\ metricsCall' = NoCall
  /\ UNCHANGED <<martsTable, apiCall>>
  /\ UNCHANGED <<rowVars, pipeVars, etlVars>>

\* the marts are built and no metric was computed yet
InitMetrics ==
  /\ \E bank_account \in Statements : martsTable = MartsOf(bank_account)
  /\ metricsCall = NoCall
  /\ ApiIdle
  /\ EtlIdle
  /\ RowIdle
  /\ PipeIdle

NextMetrics ==
  \/ SubsetDataByPeriod
  \/ CalculateAverageMonthlySpendingByMetaCategory
  \/ CalculateMonthlySpending
  \/ CalculateMonthlySaving
  \/ CalculateAverageMonthlySaving
  \/ CalculateMonthlySalary
  \/ CalculateAverageMonthlySalary
  \/ CalculateAverageMonthlyBudget
  \/ CalculateMonthlyBudgetHistory
  \/ ReturnToCaller

SpecMetrics == InitMetrics /\ [][NextMetrics]_vars

----------------------------------------------------------------------------
(* The query API (app/app.py)                                              *)

\* the period values sent to the endpoint
ApiPeriodInputs == {"last_12_months", "ytd", "year", "full_history", "invalid_period"}

\* the level values sent to the endpoint
ApiLevelInputs == {"category", "meta_category", "invalid_level"}

\* the year parameter: 0 stands for None, which `and year` treats alike
ApiYearInputs == {0, 2023, 2024}

\* datetime.now().year when the request is served
ClockYears == {2024, 2025}

\* the rows the WHERE clause of the period keeps
where_clause(table, period, year, current_year) ==
  LET NotIncome_(row) == row.meta_category # "INCOME"
      InYear(row) == row.year = current_year /\ NotIncome_(row)
      InGivenYear(row) == row.year = year /\ NotIncome_(row)
      InLast12(row) ==
        /\ \A i \in DOMAIN table :
             row.year * 12 + row.month >= (table[i].year * 12 + table[i].month) - 11
        /\ NotIncome_(row)
  IN IF period = "ytd" THEN SelectSeq(table, InYear)
     ELSE IF period = "year" /\ year # 0 THEN SelectSeq(table, InGivenYear)
     ELSE SelectSeq(table, InLast12)

\* SELECT year, month, <grouping_col> as category, SUM(amount) * -1
\* ... GROUP BY year, month, <grouping_col>: the rows of the result (SQL
\* leaves the order of the groups of a month open)
group_by_category(rows, grouping_col) ==
  {[year |-> rows[i].year, month |-> rows[i].month,
    category |-> rows[i][grouping_col],
    total_spending |->
      0 - int_sum(Column(
            LET Same(row) == /\ row.year = rows[i].year /\ row.month = rows[i].month
                             /\ row[grouping_col] = rows[i][grouping_col]
            IN SelectSeq(rows, Same), "amount"))] : i \in DOMAIN rows}

\* sum(item["total_spending"] for item in result)
RECURSIVE total_of(_)
total_of(result) ==
  IF result = {} THEN 0
  ELSE LET item == CHOOSE item \in result : TRUE
       IN item.total_spending + total_of(result \ {item})

Request(period, level, year) == [period |-> period, level |-> level, year |-> year]

NoRequest == [request |-> Request("", "", 0), status_code |-> 0, data |-> {},
              metadata |-> <<>>]

\* GET /api/transactions/by-category; execute_query turns a failing
\* query (no such table) into the HTTPException 500
get_spending_by_category ==
  /\ apiCall = NoRequest
  /\ \E period \in ApiPeriodInputs, level \in ApiLevelInputs,
        year \in ApiYearInputs, current_year \in ClockYears :
       LET grouping_col == IF level = "meta_category" THEN "meta_category"
                           ELSE "category"
           result == group_by_category(
                       where_clause(martsUnifiedTransactions.rows, period, year,
                                    current_year),
                       grouping_col)
       IN apiCall' =
            IF ~martsUnifiedTransactions.built
            THEN [request |-> Request(period, level, year), status_code |-> 500,
                  data |-> {}, metadata |-> <<>>]
            ELSE [request |-> Request(period, level, year), status_code |-> 200,
                  data |-> result,
                  metadata |-> [count |-> Cardinality(result), period |-> period,
                                level |-> level, total |-> total_of(result)]]
  /\ UNCHANGED <<martsTable, metricsCall>>
  /\ UNCHANGED <<rowVars, pipeVars, etlVars>>

\* the response is sent to the client
SendResponse ==
  /\ apiCall # NoRequest
  /\ apiCall' = NoRequest
  /\ UNCHANGED <<martsTable, metricsCall>>
  /\ UNCHANGED <<rowVars, pipeVars, etlVars>>

\* the database behind the API: the staging tables of a statement and
\* the unified mart, built of them or not yet
InitApi ==
  /\ rawTable = [acct \in AccountTypes |-> <<>>]
  /\ \E bank_account \in ShortStatements, built \in BOOLEAN :
       /\ stagingTable =
            [acct \in AccountTypes |->
               [built |-> TRUE,
                rows |-> IF acct = "bank_account" THEN bank_account ELSE <<>>]]
       /\ martsUnifiedTransactions =
            IF built
            THEN [built |-> TRUE, rows |-> unified_transactions_tbl(bank_account, <<>>)]
            ELSE [built |-> FALSE, rows |-> <<>>]
       /\ lastOp = IF built
                   THEN Op("create_unified_transactions_tbl", "", "", FALSE,
                           "success", Len(martsUnifiedTransactions.rows), 0)
                   ELSE Op("create_staging_credit_card_transactions",
                           "credit_card", "", FALSE, "success", 0, 0)
  /\ apiCall = NoRequest
  /\ MartsIdle /\ MetricsIdle
  /\ RowIdle
  /\ PipeIdle

NextApi ==
  \/ get_spending_by_category
  \/ SendResponse

SpecApi == InitApi /\ [][NextApi]_vars

----------------------------------------------------------------------------
(* The pipeline orchestration (etl/orchestration.py)                       *)

\* ETLPipeline.layers
layers ==
  [raw |-> <<"import_bank_accounts", "import_credit_cards">>,
   staging |-> <<"create_staging_bank_account_transactions",
                 "create_staging_credit_card_transactions">>]

\* the list run_full_pipeline loops over
full_pipeline_layers == <<"raw", "staging">>

\* the layer names run_layer is called with
LayerNames == {"raw", "staging", "marts", "metrics"}

TransformFunctions == UNION {Range(layers[l]) : l \in DOMAIN layers}

CurrentLayer ==
  IF pipeEntry.method = "run_layer" THEN pipeEntry.layer
  ELSE full_pipeline_layers[pipeLayer]

\* pipeline.run_layer(layer_name) is called
run_layer ==
  /\ pipeStatus # "running"
  /\ \E layer_name \in LayerNames :
       /\ pipeEntry' = [method |-> "run_layer", layer |-> layer_name]
       /\ pipeStatus' = IF layer_name \in DOMAIN layers THEN "running" ELSE "ValueError"
  /\ pipeLayer' = 0
  /\ pipeFunc' = 1
  /\ pipeCalls' = <<>>
  /\ UNCHANGED <<pipeRaises, rowVars, etlVars, qryVars>>

\* pipeline.run_full_pipeline() is called
run_full_pipeline ==
  /\ pipeStatus # "running"
  /\ pipeEntry' = [method |-> "run_full_pipeline", layer |-> ""]
  /\ pipeStatus' = "running"
  /\ pipeLayer' = 1
  /\ pipeFunc' = 1
  /\ pipeCalls' = <<>>
  /\ UNCHANGED <<pipeRaises, rowVars, etlVars, qryVars>>

\* a loop that goes on with the next transform when transform_func() raised
AfterTransformCatches(raised) ==
  /\ pipeCalls' = Append(pipeCalls, layers[CurrentLayer][pipeFunc])
  /\ IF pipeFunc < Len(layers[CurrentLayer])
     THEN pipeFunc' = pipeFunc + 1 /\ UNCHANGED <<pipeLayer, pipeStatus>>
     ELSE IF pipeEntry.method = "run_full_pipeline"
               /\ pipeLayer < Len(full_pipeline_layers)
     THEN pipeLayer' = pipeLayer + 1 /\ pipeFunc' = 1 /\ UNCHANGED pipeStatus
     ELSE pipeStatus' = "returned" /\ UNCHANGED <<pipeLayer, pipeFunc>>
  /\ UNCHANGED <<pipeEntry, pipeRaises, rowVars, qryVars>>

\* the loops of run_layer and run_full_pipeline after transform_func()
\* returned or raised
AfterTransform(raised) ==
  /\ pipeCalls' = Append(pipeCalls, layers[CurrentLayer][pipeFunc])
  /\ IF raised
     THEN pipeStatus' = "raised" /\ UNCHANGED <<pipeLayer, pipeFunc>>
     ELSE IF pipeFunc < Len(layers[CurrentLayer])
     THEN pipeFunc' = pipeFunc + 1 /\ UNCHANGED <<pipeLayer, pipeStatus>>
     ELSE IF pipeEntry.method = "run_full_pipeline"
               /\ pipeLayer < Len(full_pipeline_layers)
     THEN pipeLayer' = pipeLayer + 1 /\ pipeFunc' = 1 /\ UNCHANGED pipeStatus
     ELSE pipeStatus' = "returned" /\ UNCHANGED <<pipeLayer, pipeFunc>>
  /\ UNCHANGED <<pipeEntry, pipeRaises, rowVars, qryVars>>

\* the effect of a transform function on the database
TransformEffect(transform_func) ==
  IF transform_func = "import_bank_accounts"
  THEN ImportFolderEffect("bank_account", transform_func)
  ELSE IF transform_func = "import_credit_cards"
  THEN ImportFolderEffect("credit_card", transform_func)
  ELSE IF transform_func = "create_staging_bank_account_transactions"
  THEN CreateStagingEffect("bank_account", transform_func)
  ELSE CreateStagingEffect("credit_card", transform_func)

\* transform_func() is called and returns
TransformReturns ==
  /\ pipeStatus = "running"
  /\ layers[CurrentLayer][pipeFunc] \notin pipeRaises
  /\ TransformEffect(layers[CurrentLayer][pipeFunc])
  /\ AfterTransform(FALSE)

\* transform_func() is called and raises before it changes the database
TransformRaises ==
  /\ pipeStatus = "running"
  /\ layers[CurrentLayer][pipeFunc] \in pipeRaises
  /\ AfterTransform(TRUE)
  /\ UNCHANGED etlVars

InitPipeline ==
  /\ pipeEntry = [method |-> "none", layer |-> ""]
  /\ pipeRaises \in SUBSET TransformFunctions
  /\ pipeLayer = 0
  /\ pipeFunc = 0
  /\ pipeCalls = <<>>
  /\ pipeStatus = "idle"
  /\ EtlInit
  /\ RowIdle
  /\ QryIdle

NextPipeline ==
  \/ run_layer
  \/ run_full_pipeline
  \/ TransformReturns
  \/ TransformRaises

SpecPipeline == InitPipeline /\ [][NextPipeline]_vars

\* the functions the tests of the pipeline expect in each layer
ExpectedLayers ==
  [raw |-> {"import_bank_accounts", "import_credit_cards"},
   staging |-> {"create_staging_bank_account_transactions",
                "create_staging_credit_card_transactions"},
   marts |-> {"create_transactions_tbl", "create_spending_tbl",
              "create_income_tbl", "create_savings_tbl"}]

Calls(fs) == {i \in DOMAIN pipeCalls : pipeCalls[i] \in fs}

\* C2: a run_full_pipeline that returns has run the layers in the order
\* raw, staging, marts: every raw import before any staging build, every
\* staging build before any mart build, and each function of the three
\* layers (2 raw, 2 staging, 4 marts) exactly once.
C2_FullPipelineOrder ==
  (pipeEntry.method = "run_full_pipeline" /\ pipeStatus = "returned") =>
    /\ \A l \in DOMAIN ExpectedLayers : \A f \in ExpectedLayers[l] :
         Cardinality(Calls({f})) = 1
    /\ \A i \in Calls(ExpectedLayers["raw"]) :
         \A j \in Calls(ExpectedLayers["staging"]) : i < j
    /\ \A i \in Calls(ExpectedLayers["staging"]) :
         \A j \in Calls(ExpectedLayers["marts"]) : i < j

----------------------------------------------------------------------------
(* Claims about the ETL operations *)

\* C1: ingestion is idempotent: a non-dry-run import_csv of a file that
\* follows a non-dry-run import_csv of the same file stores nothing and
\* leaves the raw table exactly as the first import left it, for the
\* bank-account and for the credit-card importer.
C1_IdempotentImport ==
  [][ ( /\ lastOp.op = "import_csv" /\ ~lastOp.dry_run
        /\ lastOp'.op = "import_csv" /\ ~lastOp'.dry_run
        /\ lastOp'.file = lastOp.file )
      => (rawTable' = rawTable /\ lastOp'.saved = 0) ]_vars

\* the January bank export was imported again: all its rows were found
C1_Witness ==
  /\ lastOp.op = "import_csv" /\ ~lastOp.dry_run
  /\ lastOp.file = "Chase1234_Activity_jan.CSV"
  /\ lastOp.status = "success" /\ lastOp.rows = 4 /\ lastOp.saved = 0
  /\ Len(rawTable["bank_account"]) = 4
  /\ Len(rawTable["credit_card"]) = 5

StagingBuild(acct) ==
  IF acct = "bank_account" THEN "create_staging_bank_account_transactions"
  ELSE "create_staging_credit_card_transactions"

UnifiedStream ==
  create_unified_transactions(stagingTable["bank_account"].rows,
                              stagingTable["credit_card"].rows)

StagingBuilt ==
  stagingTable["bank_account"].built /\ stagingTable["credit_card"].built

\* the rows of the stream that carry staged row r of source acct
Carriers(acct, r) ==
  {i \in DOMAIN UnifiedStream :
     /\ UnifiedStream[i].source = acct
     /\ UnifiedStream[i].id = r.id
     /\ UnifiedStream[i].category = r.category
     /\ UnifiedStream[i].amount = r.amount
     /\ UnifiedStream[i].description = r.description}

ExcludedCategories(acct) ==
  IF acct = "bank_account"
  THEN {"TRANSFER_BETWEEN_CHASE_ACCOUNTS", "CREDIT_CARD_PAYMENT"}
  ELSE {"CREDIT_CARD_PAYMENT"}

\* C4: the unified stream holds no bank row categorized
\* TRANSFER_BETWEEN_CHASE_ACCOUNTS or CREDIT_CARD_PAYMENT and no credit-card
\* row categorized CREDIT_CARD_PAYMENT; every other staged row is in it
\* exactly once, tagged with its source, and nothing else is in it.
C4_UnifiedExclusions ==
  StagingBuilt =>
    /\ \A i \in DOMAIN UnifiedStream :
         /\ UnifiedStream[i].source \in AccountTypes
         /\ UnifiedStream[i].category \notin ExcludedCategories(UnifiedStream[i].source)
    /\ \A acct \in AccountTypes : \A j \in DOMAIN stagingTable[acct].rows :
         LET r == stagingTable[acct].rows[j]
         IN Cardinality(Carriers(acct, r)) =
              IF r.category \in ExcludedCategories(acct) THEN 0 ELSE 1
    /\ Len(UnifiedStream) =
         Cardinality({j \in DOMAIN stagingTable["bank_account"].rows :
                        stagingTable["bank_account"].rows[j].category
                          \notin ExcludedCategories("bank_account")})
         + Cardinality({j \in DOMAIN stagingTable["credit_card"].rows :
                          stagingTable["credit_card"].rows[j].category
                            \notin ExcludedCategories("credit_card")})

\* the card payment is staged on both sides and the stream was built
\* without either side of it
C4_Witness ==
  /\ lastOp.op = "create_unified_transactions_tbl" /\ lastOp.status = "success"
  /\ \E j \in DOMAIN stagingTable["bank_account"].rows :
       stagingTable["bank_account"].rows[j].category = "CREDIT_CARD_PAYMENT"
  /\ \E j \in DOMAIN stagingTable["bank_account"].rows :
       stagingTable["bank_account"].rows[j].category = "TRANSFER_BETWEEN_CHASE_ACCOUNTS"
  /\ \E j \in DOMAIN stagingTable["credit_card"].rows :
       stagingTable["credit_card"].rows[j].category = "CREDIT_CARD_PAYMENT"
  /\ Len(UnifiedStream) = 7

\* C5: no two rows of the unified transaction stream share a transaction
\* id, also when a bank-account row and a credit-card row have the same
\* date, amount and description.
C5_UnifiedIdsUnique ==
  StagingBuilt =>
    \A i, j \in DOMAIN UnifiedStream :
      i # j => UnifiedStream[i].id # UnifiedStream[j].id

\* the rows of the unified mart that carry row r of the unified stream
\* with its meta_category
MartCarriers(r) ==
  {i \in DOMAIN martsUnifiedTransactions.rows :
     LET m == martsUnifiedTransactions.rows[i]
     IN /\ m.id = r.id /\ m.source = r.source /\ m.category = r.category
        /\ m.amount = r.amount /\ m.description = r.description
        /\ m.meta_category = assign_categories_to_concepts(r.category)}

\* C13: after the unified mart is built it contains every transaction of
\* the unified stream (every staged transaction except the internal
\* transfers, income and brokerage transfers included), each with its
\* meta_category.
C13_UnifiedMartComplete ==
  (lastOp.op = "create_unified_transactions_tbl" /\ lastOp.status = "success") =>
    /\ Len(martsUnifiedTransactions.rows) = Len(UnifiedStream)
    /\ \A i \in DOMAIN UnifiedStream : MartCarriers(UnifiedStream[i]) # {}

\* the rows of a mart that carry row r of the unified stream (whatever
\* the sign of the amount)
MartRowsOf(name, r) ==
  {j \in DOMAIN martsTable[name].rows :
     LET m == martsTable[name].rows[j]
     IN /\ m.id = r.id /\ m.source = r.source /\ m.category = r.category
        /\ m.description = r.description /\ m.date = r.date}

\* the rows of the unified stream that are the transaction of row r
StreamRowsOf(r) ==
  {i \in DOMAIN UnifiedStream :
     /\ UnifiedStream[i].id = r.id /\ UnifiedStream[i].source = r.source
     /\ UnifiedStream[i].category = r.category
     /\ UnifiedStream[i].description = r.description
     /\ UnifiedStream[i].date = r.date}

MartsBuilt == \A name \in MartNames : martsTable[name].built

\* C11: the spending, income and savings marts partition the unified
\* stream: a transaction is in the income mart iff its category is an
\* income category, in the savings mart iff it is a savings category, in
\* the spending mart otherwise, in no mart twice, and no category is both
\* an income and a savings category.
C11_MartsPartition ==
  /\ INCOME_CATEGORIES \cap SAVINGS_CATEGORIES = {}
  /\ MartsBuilt =>
       /\ \A i \in DOMAIN UnifiedStream :
            LET r == UnifiedStream[i]
                n == Cardinality(StreamRowsOf(r))
            IN /\ Cardinality(MartRowsOf("marts_income", r)) =
                    IF r.category \in INCOME_CATEGORIES THEN n ELSE 0
               /\ Cardinality(MartRowsOf("marts_savings", r)) =
                    IF r.category \in SAVINGS_CATEGORIES THEN n ELSE 0
               /\ Cardinality(MartRowsOf("marts_spending", r)) =
                    IF r.category \in INCOME_CATEGORIES \cup SAVINGS_CATEGORIES
                    THEN 0 ELSE n
       /\ Len(martsTable["marts_income"].rows)
            + Len(martsTable["marts_savings"].rows)
            + Len(martsTable["marts_spending"].rows) = Len(UnifiedStream)

\* the three marts were built of a stream with a salary, a brokerage
\* transfer and purchases
C11_Witness ==
  /\ MartsBuilt
  /\ \E j \in DOMAIN martsTable["marts_income"].rows :
       martsTable["marts_income"].rows[j].category = "SALARY"
  /\ \E j \in DOMAIN martsTable["marts_savings"].rows :
       martsTable["marts_savings"].rows[j].category = "TRANSFER_TO_BROKERAGE"
  /\ Len(martsTable["marts_spending"].rows) >= 3

\* C12: every amount in the spending mart and in the savings mart is the
\* negation of the transaction's amount in the unified stream; the
\* amounts in the income mart and in the unified mart are the stream's.
C12_MartAmounts ==
  \A i \in DOMAIN UnifiedStream :
    LET r == UnifiedStream[i]
    IN /\ \A name \in {"marts_spending", "marts_savings"} :
            \A j \in MartRowsOf(name, r) :
              martsTable[name].rows[j].amount = 0 - r.amount
       /\ \A j \in MartRowsOf("marts_income", r) :
            martsTable["marts_income"].rows[j].amount = r.amount
       /\ \A j \in MartCarriers(r) :
            martsUnifiedTransactions.rows[j].amount = r.amount
       /\ martsUnifiedTransactions.built /\ NotSavings(r) => MartCarriers(r) # {}
       /\ \A name \in MartNames :
            martsTable[name].built =>
              (MartRowsOf(name, r) # {}
                 <=> r.category \in
                       (IF name = "marts_income" THEN INCOME_CATEGORIES
                        ELSE IF name = "marts_savings" THEN SAVINGS_CATEGORIES
                        ELSE {r.category}
                               \ (INCOME_CATEGORIES \cup SAVINGS_CATEGORIES)))

\* a purchase of -12.50 is 12.50 in the spending mart, the brokerage
\* transfer of -45.00 is 45.00 in the savings mart, the salary is as it
\* was in the income mart and in the unified mart
C12_Witness ==
  /\ martsUnifiedTransactions.built
  /\ \E j \in DOMAIN martsTable["marts_spending"].rows :
       /\ martsTable["marts_spending"].rows[j].category = "OVATION_WEEKDAY"
       /\ martsTable["marts_spending"].rows[j].amount = 1250
  /\ \E j \in DOMAIN martsTable["marts_savings"].rows :
       martsTable["marts_savings"].rows[j].amount = 4500
  /\ \E j \in DOMAIN martsTable["marts_income"].rows :
       martsTable["marts_income"].rows[j].amount = 250000
  /\ \E j \in DOMAIN martsUnifiedTransactions.rows :
       martsUnifiedTransactions.rows[j].amount = 250000

FileNamed(name) == CHOOSE f \in CsvFiles : f.name = name

\* C22: import_csv with dry_run = True leaves the raw tables as they are,
\* whatever they hold, for the bank-account and for the credit-card
\* importer, and returns the cleaned rows of the file.
C22_DryRunSavesNothing ==
  [][ (lastOp'.op = "import_csv" /\ lastOp'.dry_run) =>
        /\ rawTable' = rawTable
        /\ lastOp'.status = "success"
        /\ lastOp'.saved = 0
        /\ lastOp'.df = clean_data(FileNamed(lastOp'.file).rows)
        /\ lastOp'.rows = Len(FileNamed(lastOp'.file).rows) ]_vars

\* the January bank export was imported as a dry run into a raw table
\* that holds the two rows of the February export only
C22_Witness ==
  /\ lastOp.op = "import_csv" /\ lastOp.dry_run
  /\ lastOp.file = "Chase1234_Activity_jan.CSV"
  /\ lastOp.rows = 4 /\ Len(lastOp.df) = 4
  /\ Len(rawTable["bank_account"]) = 2
  /\ \A i \in DOMAIN rawTable["bank_account"] :
       rawTable["bank_account"][i].source_file = "Chase1234_Activity_feb.CSV"

FolderImports == {"import_bank_accounts", "import_credit_cards"}

\* the insert of a row of the file fails: an amount that did not parse
HasRejectedRow(f) == \E i \in DOMAIN f.rows : f.rows[i].amount.nan

\* C25: in a batch import a file whose processing raises yields a result
\* record with status error, zero rows and the error text, and the batch
\* goes on: it produces exactly one result record per file of the folder,
\* the files after the failed one included, and the session of the
\* importer is closed when the batch ends, whether a file failed or not.
C25_BatchErrorRecords ==
  lastOp.op \in FolderImports =>
    /\ Len(lastOp.results) = Cardinality(FilesOf(lastOp.acct))
    /\ \A f \in FilesOf(lastOp.acct) :
         Cardinality({k \in DOMAIN lastOp.results :
                        lastOp.results[k].file = f.name}) = 1
    /\ \A k \in DOMAIN lastOp.results :
         LET result == lastOp.results[k]
         IN /\ result.status \in {"success", "error"}
            /\ HasRejectedRow(FileNamed(result.file)) => result.status = "error"
            /\ result.status = "error" => (result.rows = 0 /\ result.error # "")
            /\ result.status = "success" =>
                 (result.rows = Len(FileNamed(result.file).rows) /\ result.error = "")
    /\ lastOp.session = "closed"

\* the file that cannot be inserted was the first of the bank-account
\* batch: its record reports the error and the two files after it have
\* their records too
C25_Witness ==
  /\ lastOp.op = "import_bank_accounts"
  /\ Len(lastOp.results) = 3
  /\ lastOp.results[1].file = "Chase1234_Activity_bad.CSV"
  /\ lastOp.results[1].status = "error"
  /\ lastOp.results[1].error = IntegrityError
  /\ lastOp.session = "closed"

\* C26: raw rows are unique by id and write-once: whatever files were
\* imported, in whatever order and however often, no two rows of a raw
\* table share an id, and an import leaves every row the table held as it
\* was, also when a row of the file has the id of a stored row and another
\* balance or source file.
C26_RawRowsWriteOnce ==
  [][ /\ \A acct \in AccountTypes : \A i, j \in DOMAIN rawTable'[acct] :
           i # j => rawTable'[acct][i].id # rawTable'[acct][j].id
      /\ lastOp'.op = "import_csv" =>
           \A acct \in AccountTypes :
             /\ Len(rawTable[acct]) <= Len(rawTable'[acct])
             /\ SubSeq(rawTable'[acct], 1, Len(rawTable[acct])) = rawTable[acct] ]_vars

\* the February bank export was imported after the January one: of its
\* three rows one was stored, the second Vanguard row has the id and
\* another balance than the first, and the Venmo row is still the row
\* of the January export
C26_Witness ==
  /\ lastOp.op = "import_csv" /\ ~lastOp.dry_run
  /\ lastOp.file = "Chase1234_Activity_feb.CSV"
  /\ lastOp.rows = 3 /\ lastOp.saved = 1
  /\ Len(rawTable["bank_account"]) = 5
  /\ rawTable["bank_account"][3].source_file = "Chase1234_Activity_jan.CSV"
  /\ rawTable["bank_account"][5].source_file = "Chase1234_Activity_feb.CSV"
  /\ rawTable["bank_account"][5].balance = 478450

\* C27: failed files are isolated within a batch that shares one importer
\* session: after the batch the raw table holds no row of a file whose
\* import raised, and every row of every valid file of the folder is
\* stored, also of the valid files that came after a failed one.
C27_FailedFilesIsolated ==
  lastOp.op \in FolderImports =>
    /\ \A i \in DOMAIN rawTable[lastOp.acct] :
         ~HasRejectedRow(FileNamed(rawTable[lastOp.acct][i].source_file))
    /\ \A f \in FilesOf(lastOp.acct) :
         ~HasRejectedRow(f) =>
           \A i \in DOMAIN f.rows :
             generate_id(clean_data(f.rows)[i]) \in Ids(rawTable[lastOp.acct])

\* the rows of a staging table that carry the raw row r
StagedOf(acct, r) ==
  {i \in DOMAIN stagingTable[acct].rows : stagingTable[acct].rows[i].id = r.id}

\* C28: staging preserves the raw rows one to one: right after a staging
\* build every row of the raw table is carried by exactly one staging row,
\* at the same position and with the same id, date and amount, and the
\* staging table has no other row: the cleaning pipe adds and rewrites
\* columns and neither drops, duplicates nor merges rows.
C28_StagingOneToOne ==
  \A acct \in AccountTypes :
    lastOp.op = StagingBuild(acct) =>
      /\ \A k \in DOMAIN rawTable[acct] :
           /\ StagedOf(acct, rawTable[acct][k]) = {k}
           /\ stagingTable[acct].rows[k].amount = rawTable[acct][k].amount
           /\ stagingTable[acct].rows[k].date = rawTable[acct][k].date
           /\ stagingTable[acct].rows[k].source_file = rawTable[acct][k].source_file
      /\ DOMAIN stagingTable[acct].rows = DOMAIN rawTable[acct]
      /\ lastOp.rows = Len(rawTable[acct])

\* the credit-card staging table was built over the five rows the January
\* export left in the raw table: the two coffee purchases of one
\* description and amount are two staging rows, refined to two different
\* categories, and each staging row keeps the bank's category of its raw
\* row as chase_category
C28_Witness ==
  /\ lastOp.op = "create_staging_credit_card_transactions"
  /\ Len(rawTable["credit_card"]) = 5
  /\ \E i, k \in DOMAIN stagingTable["credit_card"].rows :
       /\ i < k
       /\ rawTable["credit_card"][i].description = rawTable["credit_card"][k].description
       /\ rawTable["credit_card"][i].amount = rawTable["credit_card"][k].amount
       /\ stagingTable["credit_card"].rows[i].id # stagingTable["credit_card"].rows[k].id
       /\ stagingTable["credit_card"].rows[i].category
            # stagingTable["credit_card"].rows[k].category
  /\ \A i \in DOMAIN stagingTable["credit_card"].rows :
       stagingTable["credit_card"].rows[i].chase_category
         = rawTable["credit_card"][i].category

----------------------------------------------------------------------------
(* Claims about the metrics engine *)

\* the number of the calendar month of a row
MonthOf(row) == 12 * row.year + row.month

MonthsOf(df) == {MonthOf(df[i]) : i \in DOMAIN df}

LastMonthsPeriods ==
  [last_1_months |-> 1, last_3_months |-> 3, last_6_months |-> 6,
   last_12_months |-> 12]

\* the rows of a table a period selects
WindowOf(df, period) ==
  LET InWindow(row) ==
        IF period = "ytd" THEN \A i \in DOMAIN df : df[i].year <= row.year
        ELSE IF period = "full_history" THEN TRUE
        ELSE Cardinality({m \in MonthsOf(df) : m > MonthOf(row)})
               < LastMonthsPeriods[period]
  IN SelectSeq(df, InWindow)

\* C14: subset_data_by_period returns exactly the rows of its selector:
\* ytd the rows of the greatest year present, last_N_months the rows of
\* the N latest distinct months present in the data, full_history every
\* row; with fewer than N months in the data last_N_months returns every
\* row and raises nothing.
C14_PeriodSubsetting ==
  (metricsCall.func = "subset_data_by_period" /\ metricsCall.period \in Periods) =>
    LET df == martsTable[metricsCall.table].rows
    IN /\ metricsCall.error = ""
       /\ metricsCall.result = WindowOf(df, metricsCall.period)
       /\ (/\ metricsCall.period \in DOMAIN LastMonthsPeriods
           /\ Cardinality(MonthsOf(df)) <= LastMonthsPeriods[metricsCall.period])
            => metricsCall.result = df

\* the last twelve of thirteen months were cut out of a table that is
\* not in the order of the months
C14_Witness ==
  /\ metricsCall.func = "subset_data_by_period"
  /\ metricsCall.period = "last_12_months"
  /\ metricsCall.table = "marts_spending"
  /\ Cardinality(MonthsOf(martsTable["marts_spending"].rows)) = 13
  /\ MonthOf(martsTable["marts_spending"].rows[1]) = 12 * 2024 + 1
  /\ Len(metricsCall.result) < Len(martsTable["marts_spending"].rows)
  /\ metricsCall.result # <<>>

\* C15: a period other than ytd, last_1_months, last_3_months,
\* last_6_months, last_12_months and full_history makes
\* subset_data_by_period and every aggregation built on it raise the
\* ValueError of the invalid period and return no data.
C15_InvalidPeriodRejected ==
  (metricsCall # NoCall /\ metricsCall.period \notin Periods) =>
    /\ metricsCall.error = InvalidPeriod
    /\ metricsCall.result = <<>>

\* the budget was asked for a period that does not exist, of marts that
\* hold data, and the call raised
C15_Witness ==
  /\ metricsCall.func = "calculate_average_monthly_budget"
  /\ metricsCall.period = "last_2_months"
  /\ metricsCall.error = InvalidPeriod
  /\ \A name \in MartNames : martsTable[name].rows # <<>>

\* C16: the spending-by-category endpoint answers a request with an
\* unrecognized period value with a client error, never with the data of
\* a default period.
C16_InvalidPeriodIsClientError ==
  (/\ apiCall # NoRequest
   /\ apiCall.request.period \notin Periods \cup {"year"}
   /\ martsUnifiedTransactions.built) =>
    /\ apiCall.status_code \in 400..499
    /\ apiCall.data = {}

\* C17: the analysis dataset of the spending metrics is the period
\* window of the spending mart, without exactly its WEDDING rows when
\* include_wedding is False; the window is taken of the whole mart, so
\* leaving out the wedding rows never changes its months.
C17_WeddingToggle ==
  (/\ metricsCall.func \in {"calculate_monthly_spending",
                            "calculate_average_monthly_spending_by_meta_category"}
   /\ metricsCall.period \in Periods) =>
    LET window == WindowOf(martsTable["marts_spending"].rows, metricsCall.period)
        Kept(row) == metricsCall.include_wedding \/ row.meta_category # "WEDDING"
    IN /\ metricsCall.error = ""
       /\ metricsCall.data = SelectSeq(window, Kept)
       /\ MonthsOf(metricsCall.data) \subseteq MonthsOf(window)

\* the last month of the mart holds wedding spending only: without the
\* wedding rows the last_1_months dataset is empty, not the month before
C17_Witness ==
  /\ metricsCall.func = "calculate_monthly_spending"
  /\ metricsCall.period = "last_1_months"
  /\ ~metricsCall.include_wedding
  /\ metricsCall.error = ""
  /\ metricsCall.data = <<>>
  /\ \E i \in DOMAIN martsTable["marts_spending"].rows :
       martsTable["marts_spending"].rows[i].meta_category # "WEDDING"

\* C18: avg_monthly_spend of every meta-category is its total spend in
\* the period window divided by the number of distinct months observed
\* anywhere in the window, the same for every category and also when
\* include_wedding is False; spending_occurs_every_month is true iff the
\* category has transactions in every one of those months.
C18_AverageMonthlySpend ==
  (/\ metricsCall.func = "calculate_average_monthly_spending_by_meta_category"
   /\ metricsCall.error = "") =>
    LET window == WindowOf(martsTable["marts_spending"].rows, metricsCall.period)
    IN \A k \in DOMAIN metricsCall.result :
         LET row == metricsCall.result[k]
             spent == Where(window, "meta_category", row.meta_category)
         IN /\ row.avg_monthly_spend =
                 Float(int_sum(Column(spent, "amount")), Cardinality(MonthsOf(window)))
            /\ row.spending_occurs_every_month <=> MonthsOf(spent) = MonthsOf(window)

\* the text of a calendar month as the staging layer writes year_month
YearMonthOf(month) ==
  normalize_date([date |-> <<(month - 1) \div 12, ((month - 1) % 12) + 1, 1>>]).year_month

\* C19: the monthly savings series has exactly one row for every
\* calendar month from the earliest to the latest month with a savings
\* transaction in the windowed data, in ascending order; a month with
\* transactions carries the sum of their amounts, a month without any
\* carries 0.
C19_DenseSavings ==
  (metricsCall.func = "calculate_monthly_saving" /\ metricsCall.period \in Periods) =>
    LET window == WindowOf(martsTable["marts_savings"].rows, metricsCall.period)
        months == MonthsOf(window)
    IN IF window = <<>> THEN metricsCall.error # ""
       ELSE LET earliest == CHOOSE m \in months : \A n \in months : m <= n
                latest == CHOOSE m \in months : \A n \in months : n <= m
            IN /\ metricsCall.error = ""
               /\ Len(metricsCall.result) = latest - earliest + 1
               /\ \A k \in DOMAIN metricsCall.result :
                    LET InMonth(row) == MonthOf(row) = earliest + k - 1
                    IN /\ metricsCall.result[k].year_month = YearMonthOf(earliest + k - 1)
                       /\ metricsCall.result[k].monthly_savings =
                            int_sum(Column(SelectSeq(window, InMonth), "amount"))

\* savings in November and in January only: the series has a December
\* row with 0 between them
C19_Witness ==
  /\ metricsCall.func = "calculate_monthly_saving"
  /\ metricsCall.error = ""
  /\ MonthsOf(martsTable["marts_savings"].rows) = {12 * 2023 + 11, 12 * 2024 + 1}
  /\ Len(metricsCall.result) = 3
  /\ metricsCall.result[2].year_month = <<"2", "0", "2", "3", "-", "1", "2">>
  /\ metricsCall.result[2].monthly_savings = 0
  /\ metricsCall.result[3].monthly_savings # 0

\* the sum of floats, nan if one of them is
RECURSIVE float_total(_)
float_total(xs) ==
  IF xs = <<>> THEN Float(0, 1) ELSE float_add(xs[1], float_total(Tail(xs)))

\* C20: the average monthly budget has one SPENDING row per spending
\* meta-category with the negated average monthly spend, exactly two
\* INCOME rows (SALARY with the average monthly salary and the fixed
\* contribution of 850), exactly one CASH_FLOW row, and the CASH_FLOW
\* amount equals the sum of the SPENDING amounts plus the sum of the
\* INCOME amounts, for any input.
C20_BudgetCashFlow ==
  (metricsCall.func = "calculate_average_monthly_budget" /\ metricsCall.error = "") =>
    LET spending == Where(metricsCall.result, "category", "SPENDING")
        income == Where(metricsCall.result, "category", "INCOME")
        cash_flow == Where(metricsCall.result, "category", "CASH_FLOW")
        by_category == calculate_average_monthly_spending_by_meta_category(
                         martsTable, metricsCall.period, metricsCall.include_wedding).value
    IN /\ Len(spending) = Len(by_category)
       /\ \A k \in DOMAIN by_category :
            Cardinality({j \in DOMAIN spending :
                           /\ spending[j].description = by_category[k].meta_category
                           /\ spending[j].amount =
                                float_neg(by_category[k].avg_monthly_spend)}) = 1
       /\ Len(income) = 2
       /\ income[1].description = "SALARY"
       /\ income[1].amount =
            calculate_average_monthly_salary(martsTable, metricsCall.period).value
       /\ income[2].amount = Dollars(MORTGAGE_CONTRIBUTION)
       /\ Len(cash_flow) = 1
       /\ Len(metricsCall.result) = Len(spending) + 3
       /\ float_eq(cash_flow[1].amount,
                   float_add(float_total(Column(spending, "amount")),
                             float_total(Column(income, "amount"))))

\* C21: the monthly budget history has exactly one row per month of the
\* monthly spending series, in ascending order of the months; salary and
\* savings are joined to those rows and add none; cumulative_savings of a
\* row that has savings is the sum of the monthly_savings of that row and
\* of the rows before it.
C21_BudgetHistory ==
  (/\ metricsCall.func = "calculate_monthly_budget_history"
   /\ metricsCall.period \in Periods) =>
    LET spending == calculate_monthly_spending(
                      martsTable, metricsCall.period, metricsCall.include_wedding).value
        history == metricsCall.result
    IN /\ metricsCall.error = ""
       /\ Len(history) = Len(spending)
       /\ \A k \in DOMAIN history :
            /\ history[k].year_month = spending[k].year_month
            /\ history[k].monthly_spending = spending[k].monthly_spending
            /\ k > 1 => str_less(history[k - 1].year_month, history[k].year_month)
            /\ ~isnan(history[k].monthly_savings) =>
                 history[k].cumulative_savings =
                   series_sum(SubSeq(Column(history, "monthly_savings"), 1, k))

\* the N of a period last_N_months, 0 for the other periods
WindowMonths(period) ==
  CASE period = "last_1_months" -> 1
    [] period = "last_3_months" -> 3
    [] period = "last_6_months" -> 6
    [] period = "last_12_months" -> 12
    [] OTHER -> 0

\* C29: a windowed savings series stays inside its window: for a period
\* last_N_months the series calculate_monthly_saving returns has at most N
\* rows, and every month of it is one of the N most recent months of the
\* savings mart.
C29_SavingsInsideWindow ==
  (/\ metricsCall.func = "calculate_monthly_saving"
   /\ WindowMonths(metricsCall.period) > 0
   /\ metricsCall.error = "") =>
    LET window == determine_last_X_months_from_dataset(
                    martsTable["marts_savings"].rows,
                    WindowMonths(metricsCall.period))
    IN /\ Len(metricsCall.result) <= WindowMonths(metricsCall.period)
       /\ \A k \in DOMAIN metricsCall.result :
            metricsCall.result[k].year_month \in Range(window)

\* the periods that cut a window out of each mart
WindowPeriods ==
  {"ytd", "last_1_months", "last_3_months", "last_6_months", "last_12_months"}

\* what a mart records for a month: the sum of the amounts of its rows of
\* that month, over the whole mart
RecordedFor(rows, year_month) ==
  Float(int_sum(Column(Where(rows, "year_month", year_month), "amount")), 1)

\* C30: the windows of one budget result are consistent across the marts:
\* for a ytd or last_N_months period every month row of the budget history
\* carries the salary the income mart records for that month whenever the
\* income mart has salary rows in it, and the savings the savings mart
\* records for that month whenever the savings mart has rows in it.
C30_WindowsConsistent ==
  (/\ metricsCall.func = "calculate_monthly_budget_history"
   /\ metricsCall.period \in WindowPeriods
   /\ metricsCall.error = "") =>
    LET salary == Where(martsTable["marts_income"].rows, "category", "SALARY")
        savings == martsTable["marts_savings"].rows
    IN \A k \in DOMAIN metricsCall.result :
         LET row == metricsCall.result[k]
         IN /\ Where(salary, "year_month", row.year_month) # <<>> =>
                 row.monthly_salary = RecordedFor(salary, row.year_month)
            /\ Where(savings, "year_month", row.year_month) # <<>> =>
                 row.monthly_savings = RecordedFor(savings, row.year_month)

----------------------------------------------------------------------------
(* Claims about the classifier *)

BaseCategory(acct, d) ==
  IF acct = "bank_account" THEN categorize_individual_bank_transaction(d)
  ELSE categorize_individual_credit_card_transaction(d)

AnyRuleMatches(acct, d) ==
  \E i \in DOMAIN RulesOf(acct) : RuleMatches(RulesOf(acct)[i], d)

\* C6: classification never fails: for every normalized description each
\* classifier returns a category code of its taxonomy, and the code is OTHER
\* exactly when no rule predicate of that classifier matches the description.
C6_ClassificationTotal ==
  rowStage = "categorized" =>
    /\ rowCat \in CategoryCodes(rowAcct)
    /\ (rowCat = "OTHER") <=> ~AnyRuleMatches(rowAcct, rowDesc)

C6_Witness ==
  /\ rowStage = "categorized"
  /\ rowCat = "OTHER"
  /\ rowDesc = <<"R","A","N","D","O","M"," ","M","E","R","C","H","A","N","T">>

\* C7: every (description, category) pair of the classifier fixture tables
\* is classified as listed.
C7_FixturesClassified ==
  rowStage = "categorized" =>
    \A i \in DOMAIN FixturesOf(rowAcct) :
      FixturesOf(rowAcct)[i].description = rowDesc =>
        rowCat = FixturesOf(rowAcct)[i].expected

\* C9: context refinement runs on credit-card rows only, after the base
\* pass: OVATION becomes OVATION_WEEKEND on days 6 and 7 and OVATION_WEEKDAY
\* otherwise, OTHER with chase_category 'Food & Drink' becomes EATING_OUT,
\* every other row keeps its base category; no refined row is OVATION.
C9_Refinement ==
  /\ rowStage = "refined" =>
        LET base == categorize_individual_credit_card_transaction(rowDesc) IN
        /\ rowAcct = "credit_card"
        /\ rowCat # "OVATION"
        /\ base = "OVATION" /\ rowDow \in {6, 7} => rowCat = "OVATION_WEEKEND"
        /\ base = "OVATION" /\ rowDow \notin {6, 7} => rowCat = "OVATION_WEEKDAY"
        /\ base = "OTHER" /\ rowChase = FoodAndDrink => rowCat = "EATING_OUT"
        /\ base # "OVATION" /\ ~(base = "OTHER" /\ rowChase = FoodAndDrink)
             => rowCat = base
  /\ rowStage = "categorized" => rowCat = BaseCategory(rowAcct, rowDesc)

C9_Witness ==
  /\ rowStage = "refined"
  /\ rowCat = "OVATION_WEEKDAY"
  /\ rowDow = 3

\* the rules of a classifier that hold the literal
RulesHolding(acct, literal) ==
  {j \in DOMAIN RulesOf(acct) : literal \in Range(RulesOf(acct)[j].pats)}

\* C23: rule order puts specific patterns before generic ones: whenever a
\* pattern P of a rule is a substring of a pattern Q of a rule with a
\* different category of the same classifier, the rule holding Q comes
\* before the rule holding P, and a description equal to Q is classified
\* by the rule of Q.
C23_SpecificBeforeGeneric ==
  rowStage = "categorized" =>
    \A j \in RulesHolding(rowAcct, rowDesc) :
      \A i \in DOMAIN RulesOf(rowAcct) :
        (/\ RulesOf(rowAcct)[i].cat # RulesOf(rowAcct)[j].cat
         /\ \E k \in DOMAIN RulesOf(rowAcct)[i].pats :
              Contains(rowDesc, RulesOf(rowAcct)[i].pats[k])) =>
          /\ j < i
          /\ rowCat = RulesOf(rowAcct)[j].cat

----------------------------------------------------------------------------
(* Claims about description normalisation *)

Normalized(d) ==
  /\ \A i \in DOMAIN d : d[i] \notin LowerLetters
  /\ d # <<>> => d[1] \notin Whitespace /\ d[Len(d)] \notin Whitespace
  /\ \A i \in 1..(Len(d) - 1) : ~(d[i] \in Whitespace /\ d[i + 1] \in Whitespace)

\* C8: normalisation is idempotent; its output is uppercase, has no leading
\* or trailing whitespace and no run of two or more whitespace characters;
\* two raw descriptions that differ only in letter case or whitespace amount
\* get the same category from the staging pipe.
C8_Normalization ==
  /\ rowStage # "raw" =>
       /\ normalize_description(rowDesc) = rowDesc
       /\ normalize_description(twinDesc) = twinDesc
       /\ Normalized(rowDesc)
       /\ Normalized(twinDesc)
  /\ rowStage \in {"categorized", "refined"} => rowCat = twinCat

C8_Witness ==
  /\ rowStage = "refined"
  /\ rowRaw = <<"o", "X", " ">>
  /\ twinRaw = <<"\t", "O", "x", " ">>
  /\ rowCat = "EATING_OUT"
  /\ twinCat = "EATING_OUT"

\* C10: the meta-category mapper gives every category code exactly one
\* non-null meta_category: the one the mapping table documents for the code
\* (CASH_WITHDRAWL -> CASH_WITHDRAWL, SALARY and TAX_REFUND -> INCOME),
\* OTHER for a code that is in none of the mapping sets; and no code is in
\* two mapping sets.
C10_MetaMapping ==
  rowStage = "mapped" =>
    /\ rowMeta # ""
    /\ \A i \in DOMAIN MetaFixtures :
         MetaFixtures[i].category = rowCat => rowMeta = MetaFixtures[i].expected
    /\ rowCat = "CASH_WITHDRAWL" => rowMeta = "CASH_WITHDRAWL"
    /\ rowCat \in {"SALARY", "TAX_REFUND"} => rowMeta = "INCOME"
    /\ (\A i \in DOMAIN MetaRules : rowCat \notin MetaRules[i].cats) => rowMeta = "OTHER"
    /\ \A i, j \in DOMAIN MetaRules :
         i # j => MetaRules[i].cats \cap MetaRules[j].cats = {}

====
